---- MODULE Spec2Model ----
(***************************************************************************)
(* A model of the sketch/annotation engine of arcgis_sketch_tool:          *)
(* SketchService (src/src/app/models/draw-settings.ts), the parts of       *)
(* MeasurementService it uses, ExportService.importEsriJson and the        *)
(* AppComponent / SidebarComponent entry points that drive it.             *)
(*                                                                         *)
(* The SketchViewModel (svm), the MapView and the geometry engine are      *)
(* external collaborators.  The svm is modelled by the operation it has in *)
(* flight (svmOp) and by the 'create' / 'update' events it delivers; the   *)
(* geometry engine's numeric results are kept symbolic.                    *)
(***************************************************************************)
EXTENDS Integers, Sequences, FiniteSets, TLC

VARIABLES
    graphics,          \* heap of Graphic objects: id -> [geom, tool, sid]
    drawLayer,         \* drawLayer.graphics, a sequence of graphic ids
    labelLayer,        \* labelLayer.graphics, a sequence of label records
    textLayer,         \* textLayer.graphics, a sequence of graphic ids
    selectionLayer,    \* selectionLayer.graphics (empty while the layer does not exist)
    hasSelectionLayer, \* this.selectionLayer !== undefined
    svmLayer,          \* svm.layer: "draw" or "selection"
    svmOp,             \* the operation the SketchViewModel has in flight
    textClickHandler,  \* this.textClickHandler: NoSettings or the captured settings
    textClickHandles,  \* the number of handlers of enableTextPlacement registered on the view
    tempLabels,        \* this.tempLabels
    selectionMode,     \* this.selectionMode: "rectangle" or "null"
    isEditing,         \* this.isEditing
    reflowTimer,       \* the timeouts of reflowAllLabels that are armed (timer ids)
    selectionMap,      \* this.selectionMap: clone id -> source id
    labelIndex,        \* this.labelIndex: sid -> sequence of label records
    currentSettings,   \* this.currentSettings (NoSettings for null)
    allGraphics,       \* the rows of the table: the last list sent on allGraphicsSubject
    pendingHits,       \* view.hitTest promises of the click handler not yet resolved
    published,         \* the values the last step emitted on the two Subjects, in order
    labelOps,          \* history: the add / remove / removeAll calls the last step made on the label layer, in order
    lastOp,            \* history: the entry point or event handled by the last step
    steps              \* history: the number of steps taken

vars == <<graphics, drawLayer, labelLayer, textLayer, selectionLayer,
          hasSelectionLayer, svmLayer, svmOp, textClickHandler,
          textClickHandles, tempLabels, selectionMode, isEditing, reflowTimer, selectionMap, labelIndex,
          currentSettings, allGraphics, pendingHits, published, labelOps,
          lastOp, steps>>

----------------------------------------------------------------------------
(* Bounds of the model *)

\* graphics the draw and text layers may hold together
MaxShapes == 2

\* hit tests of the click handler that may be pending at once
MaxPendingHits == 2

\* ids getGraphicId may hand out (the label index keeps the entries of
\* removed shapes, so the ids in use only grow)
MaxSids == 3

\* user actions, svm events and timer expiries of one session
MaxSteps == 6

----------------------------------------------------------------------------
(* Generic helpers *)

Range(f) == {f[x] : x \in DOMAIN f}

SeqToSet(q) == {q[i] : i \in 1..Len(q)}

RemoveFromSeq(q, x) == SelectSeq(q, LAMBDA e : e # x)

RECURSIVE Flatten(_)
Flatten(qq) == IF qq = <<>> THEN <<>> ELSE Head(qq) \o Flatten(Tail(qq))

\* the i-th smallest element of a finite set of integers
NthSmallest(S, i) == CHOOSE x \in S : Cardinality({y \in S : y < x}) = i - 1

\* the n smallest positive integers not in S, in increasing order
SmallestFree(S, n) ==
    LET C == (1..(Cardinality(S) + n)) \ S
    IN  [i \in 1..n |-> NthSmallest(C, i)]

\* the elements of a finite set of integers in increasing order
SortedSeq(S) == [i \in 1..Cardinality(S) |-> NthSmallest(S, i)]

Min(a, b) == IF a < b THEN a ELSE b

----------------------------------------------------------------------------
(* Settings (interface DrawSettings) *)

NoSettings == [tool |-> "null", content |-> "", fontSize |-> 0,
               showDuringDraw |-> FALSE, showSegmentLengths |-> FALSE,
               showTotals |-> FALSE, showCircleRadius |-> FALSE,
               showTitle |-> FALSE]

MkSettings(tool, content, du, seg, tot, rad, tit) ==
    [tool |-> tool, content |-> content, fontSize |-> 12,
     showDuringDraw |-> du, showSegmentLengths |-> seg,
     showTotals |-> tot, showCircleRadius |-> rad, showTitle |-> tit]

\* the settings values the sidebar form is made to emit
SettingsSamples ==
    { MkSettings("polygon",  "Label", TRUE,  TRUE,  TRUE,  TRUE,  TRUE),
      MkSettings("point",    "Label", TRUE,  FALSE, FALSE, FALSE, TRUE),
      MkSettings("text",     "Note",  FALSE, FALSE, FALSE, FALSE, FALSE) }

----------------------------------------------------------------------------
(* Geometries: [type, parts]; parts are the paths of a polyline, the rings *)
(* of a polygon, or the single vertex of a point.                          *)

NoGeom == [type |-> "none", parts |-> <<>>]

PointGeom(v) == [type |-> "point",
                 parts |-> << << <<4 * (v - 1), 0>> >> >>]

PolylineGeom(v) ==
    IF v = 1
    THEN [type |-> "polyline", parts |-> << << <<0, 0>>, <<2, 0>> >> >>]
    ELSE [type |-> "polyline", parts |-> << << <<6, 2>>, <<6, 0>>, <<4, -2>> >> >>]

PolygonGeom(v) ==
    LET d == 4 * (v - 1)
    IN  [type |-> "polygon",
         parts |-> << << <<d, 0>>, <<d + 2, 0>>, <<d, 2>>, <<d, 0>> >> >>]

\* the geometry type the SketchViewModel produces for a create tool
GeomTypeOfTool(tool) ==
    CASE tool = "point" -> "point"
      [] tool = "polyline" -> "polyline"
      [] OTHER -> "polygon"

GeomOf(type, v) ==
    CASE type = "point" -> PointGeom(v)
      [] type = "polyline" -> PolylineGeom(v)
      [] OTHER -> PolygonGeom(v)

\* the rectangle drawn by the marquee tool, covering x in [x1, x2]
RectGeom(x1, x2) ==
    [type |-> "polygon",
     parts |-> << << <<x1, -3>>, <<x2, -3>>, <<x2, 3>>, <<x1, 3>>, <<x1, -3>> >> >>]

MarqueeSamples == {RectGeom(-1, 3), RectGeom(8, 9)}

Vertices(geom) == SeqToSet(Flatten(geom.parts))

\* geometryEngine.intersects, decided on the extents of the sample geometries
Intersects(a, b) ==
    LET xa == {p[1] : p \in Vertices(a)}
        ya == {p[2] : p \in Vertices(a)}
        xb == {p[1] : p \in Vertices(b)}
        yb == {p[2] : p \in Vertices(b)}
    IN  /\ \E x \in xa : \E y \in xb : x <= y
        /\ \E x \in xb : \E y \in xa : x <= y
        /\ \E x \in ya : \E y \in yb : x <= y
        /\ \E x \in yb : \E y \in ya : x <= y

----------------------------------------------------------------------------
(* MeasurementService.  The geometry engine's numbers stay symbolic: a     *)
(* value is [k, of, n], the kind of measurement, the vertices it was taken *)
(* of, and a count where the value is one.                                 *)

Val(k, of) == [k |-> k, of |-> of, n |-> 0]

geodesicLength(geom) == Val("length", geom.parts)

geodesicPerimeter(geom) == Val("length", geom.parts)

geodesicArea(geom) == Val("area", geom.parts)

radiusFromPolygon(geom) == Val("radius", geom.parts)

\* getSegments: the consecutive vertex pairs of every path / ring
getSegments(geom) ==
    Flatten([k \in 1..Len(geom.parts) |->
        [i \in 1..(Len(geom.parts[k]) - 1) |->
            <<geom.parts[k][i], geom.parts[k][i + 1]>>]])

\* segmentLengths: one geodesic length per consecutive vertex pair
segmentLengths(geom) ==
    Flatten([k \in 1..Len(geom.parts) |->
        [i \in 1..(Len(geom.parts[k]) - 1) |->
            geodesicLength([type |-> "polyline",
                            parts |-> << <<geom.parts[k][i], geom.parts[k][i + 1]>> >>])]])

\* getSegmentMidpoint (the sample vertices have even coordinates)
getSegmentMidpoint(seg) ==
    <<(seg[1][1] + seg[2][1]) \div 2, (seg[1][2] + seg[2][2]) \div 2>>

\* Math.atan2(dy, dx) in degrees, for the axis and diagonal directions the
\* sample geometries use
Atan2Deg(dy, dx) ==
    CASE dx > 0 /\ dy = 0 -> 0
      [] dx > 0 /\ dy > 0 -> 45
      [] dx = 0 /\ dy > 0 -> 90
      [] dx < 0 /\ dy > 0 -> 135
      [] dx < 0 /\ dy = 0 -> 180
      [] dx < 0 /\ dy < 0 -> -135
      [] dx = 0 /\ dy < 0 -> -90
      [] dx > 0 /\ dy < 0 -> -45
      [] OTHER -> 0

getSegmentAngle(seg) == Atan2Deg(seg[2][2] - seg[1][2], seg[2][1] - seg[1][1])

\* centroidLabelPoint(geom) || extent.center: a symbolic anchor
centroidLabelPoint(geom) ==
    IF geom.type = "polygon"
    THEN [k |-> "centroid", of |-> geom.parts]
    ELSE [k |-> "extentCenter", of |-> geom.parts]

----------------------------------------------------------------------------
(* Label graphics: [lid, text, anchor, off, angle].  lid is the identity   *)
(* of the Graphic object; the rest is what the TextSymbol and the geometry *)
(* of the label hold.                                                      *)

labelOffsetPx == 10

Text(k, of, str) == [k |-> k, of |-> of, str |-> str]

\* no offsetPoint call: the anchor itself
NoOffset == [proj |-> FALSE, mag |-> 0, dir |-> 0, dy |-> 0]

\* offsetPoint(p, mag * cos(dir), mag * sin(dir))
PolarOffset(mag, dir) == [proj |-> TRUE, mag |-> mag, dir |-> dir, dy |-> 0]

\* offsetPoint(p, 0, dy)
VerticalOffset(dy) == [proj |-> TRUE, mag |-> 0, dir |-> 0, dy |-> dy]

Content(text, anchor, off, angle) ==
    [text |-> text, anchor |-> anchor, off |-> off, angle |-> angle]

MkLabel(lid, c) ==
    [lid |-> lid, text |-> c.text, anchor |-> c.anchor, off |-> c.off,
     angle |-> c.angle]

ContentOf(l) == Content(l.text, l.anchor, l.off, l.angle)

ContentsOf(q) == [i \in 1..Len(q) |-> ContentOf(q[i])]

\* Math.round(fontSize * 1.2) and Math.round(fontSize * 1.0)
LineHeight(settings) == (settings.fontSize * 12 + 5) \div 10

Spacing(settings) == settings.fontSize

\* settings.text.content || 'Feature'
TitleOf(settings) == IF settings.content = "" THEN "Feature" ELSE settings.content

\* a defective normalisation: the bearing is stored as it is
NormalizeAngle_Identity(angle) == angle

\* the angle normalisation of the segment loop
NormalizeAngle(angle) ==
    IF angle > 90 THEN angle - 180
    ELSE IF angle < -90 THEN angle + 180
    ELSE angle

\* the segment-length labels of makeLabelsForGeometry (both branches)
SegmentLabels(geom) ==
    LET segments == getSegments(geom)
        lens == segmentLengths(geom)
    IN  [i \in 1..Min(Len(segments), Len(lens)) |->
            LET angle == NormalizeAngle(getSegmentAngle(segments[i]))
            IN  Content(Text("len", lens[i].of, ""),
                        [k |-> "point", of |-> << <<getSegmentMidpoint(segments[i])>> >>],
                        PolarOffset(labelOffsetPx, angle + 90),
                        angle)]

\* a defective center block: the first line on the anchor, the others below
CenterBlock_TopDown(geom, settings, lines) ==
    [i \in 1..Len(lines) |->
        Content(lines[i], centroidLabelPoint(geom),
                VerticalOffset((i - 1) * LineHeight(settings)), 0)]

\* the stacked center block: line i (from 0) of n at dy = (i - (n-1)) * lineHeight
CenterBlock(geom, settings, lines) ==
    [i \in 1..Len(lines) |->
        Content(lines[i], centroidLabelPoint(geom),
                VerticalOffset(((i - 1) - (Len(lines) - 1)) * LineHeight(settings)),
                0)]

PolylineLines(geom, settings) ==
    (IF settings.showTitle THEN <<Text("title", <<>>, TitleOf(settings))>> ELSE <<>>)
    \o (IF settings.showTotals THEN <<Text("L", geom.parts, "")>> ELSE <<>>)

PolygonLines(geom, settings) ==
    (IF settings.showTitle THEN <<Text("title", <<>>, TitleOf(settings))>> ELSE <<>>)
    \o (IF settings.showTotals
        THEN <<Text("A", geom.parts, ""), Text("P", geom.parts, "")>>
        ELSE <<>>)
    \o (IF settings.showCircleRadius THEN <<Text("R", geom.parts, "")>> ELSE <<>>)

\* makeLabelsForGeometry: the contents of the labels it returns, in order
makeLabelsForGeometry(geom, settings) ==
    CASE geom.type = "polyline" ->
            (IF settings.showSegmentLengths THEN SegmentLabels(geom) ELSE <<>>)
            \o (IF settings.showTitle \/ settings.showTotals
                THEN CenterBlock(geom, settings, PolylineLines(geom, settings))
                ELSE <<>>)
      [] geom.type = "polygon" ->
            (IF settings.showSegmentLengths THEN SegmentLabels(geom) ELSE <<>>)
            \o CenterBlock(geom, settings, PolygonLines(geom, settings))
      [] OTHER -> <<>>

\* the vertical separation placeTitleLabel computes
TitleSep(geom, settings) ==
    IF geom.type = "polyline" /\ settings.showTotals THEN Spacing(settings)
    ELSE IF geom.type = "polygon"
    THEN LET measurementLines == (IF settings.showTotals THEN 2 ELSE 0)
                                 + (IF settings.showCircleRadius THEN 1 ELSE 0)
         IN  IF measurementLines > 0
             \* Math.round(((measurementLines + 1) / 2) * spacing)
             THEN ((measurementLines + 1) * Spacing(settings) + 1) \div 2
             ELSE 0
    ELSE 0

\* placeTitleLabel: the content of the standalone title it creates
titleLabelContent(geom, settings) ==
    LET basePt == IF geom.type = "point"
                  THEN [k |-> "point", of |-> geom.parts]
                  ELSE centroidLabelPoint(geom)
        sep == TitleSep(geom, settings)
    IN  Content(Text("title", <<>>, TitleOf(settings)), basePt,
                IF sep # 0 THEN VerticalOffset(-sep) ELSE NoOffset, 0)

----------------------------------------------------------------------------
(* The service's state as one record, so that a handler is an operator     *)
(* from state to state and handlers compose in the order the code calls    *)
(* them.  avoid holds the label identities in use since the step began:    *)
(* a Graphic created during a step is a new object.                        *)

UsedLidsOf(layer, temp, index) ==
    {l.lid : l \in SeqToSet(layer) \cup SeqToSet(temp)
                   \cup UNION {SeqToSet(index[k]) : k \in DOMAIN index}}

Cur ==
    [graphics |-> graphics, drawLayer |-> drawLayer, labelLayer |-> labelLayer,
     textLayer |-> textLayer, selectionLayer |-> selectionLayer,
     hasSelectionLayer |-> hasSelectionLayer, svmLayer |-> svmLayer,
     svmOp |-> svmOp, textClickHandler |-> textClickHandler,
     textClickHandles |-> textClickHandles,
     tempLabels |-> tempLabels, selectionMode |-> selectionMode,
     isEditing |-> isEditing, reflowTimer |-> reflowTimer,
     selectionMap |-> selectionMap, labelIndex |-> labelIndex,
     currentSettings |-> currentSettings, allGraphics |-> allGraphics,
     pendingHits |-> pendingHits,
     published |-> <<>>, labelOps |-> <<>>,
     avoid |-> UsedLidsOf(labelLayer, tempLabels, labelIndex)]

NoOp == [kind |-> "none", tool |-> "", targets |-> <<>>]

\* an emission: the stream and the value (ids or rows, the other empty)
Emission(stream, ids, rows) == [stream |-> stream, ids |-> ids, rows |-> rows]

\* an entry of the history labelOps
LayerOp(op, lid) == [op |-> op, lid |-> lid]

\* GraphicsLayer.add / remove on the label layer
labelLayerAdd(s, l) ==
    [s EXCEPT !.labelLayer = Append(@, l),
              !.labelOps = Append(@, LayerOp("add", l.lid))]

labelLayerRemove(s, l) ==
    [s EXCEPT !.labelLayer = SelectSeq(@, LAMBDA e : e.lid # l.lid),
              !.labelOps = Append(@, LayerOp("remove", l.lid))]

RECURSIVE labelLayerAddAll(_, _)
labelLayerAddAll(s, ls) ==
    IF ls = <<>> THEN s ELSE labelLayerAddAll(labelLayerAdd(s, Head(ls)), Tail(ls))

RECURSIVE labelLayerRemoveEach(_, _)
labelLayerRemoveEach(s, ls) ==
    IF ls = <<>> THEN s
    ELSE labelLayerRemoveEach(labelLayerRemove(s, Head(ls)), Tail(ls))

\* new Graphic(...) for each content: label objects with identities not
\* used since the step began
NewLabels(s, contents) ==
    LET ids == SmallestFree(s.avoid, Len(contents))
    IN  [i \in 1..Len(contents) |-> MkLabel(ids[i], contents[i])]

Reserve(s, ls) == [s EXCEPT !.avoid = @ \cup {ls[i].lid : i \in 1..Len(ls)}]

\* a Graphic object not yet on the heap
NewGraphic(s) == SmallestFree(DOMAIN s.graphics, 1)[1]

Alloc(s, g, geom, tool) ==
    [s EXCEPT !.graphics = [x \in DOMAIN s.graphics \cup {g} |->
        IF x = g THEN [geom |-> geom, tool |-> tool, sid |-> 0]
        ELSE s.graphics[x]]]

\* Subject.next on the two published streams
publishMeasurements(s, rows) ==
    [s EXCEPT !.published = Append(@, Emission("measurements", <<>>, rows))]

\* publishAllGraphics: the table keeps the list it receives
publishAllGraphics(s) == [s EXCEPT !.allGraphics = s.drawLayer \o s.textLayer]

setSelectedGraphicIds(s, ids) ==
    [s EXCEPT !.published = Append(@, Emission("selectedGraphicIds", ids, <<>>))]

----------------------------------------------------------------------------
(* Identity registry *)

UsedSids(s) ==
    {s.graphics[g].sid : g \in DOMAIN s.graphics} \cup DOMAIN s.labelIndex

\* a defective getGraphicId: it generates and attaches an id on every call
getGraphicId_Regenerates(s, g) ==
    [s EXCEPT !.graphics[g].sid = SmallestFree(UsedSids(s), 1)[1]]

\* getGraphicId: the state after the call (the id is attached on first call)
getGraphicId(s, g) ==
    IF s.graphics[g].sid # 0 THEN s
    ELSE [s EXCEPT !.graphics[g].sid = SmallestFree(UsedSids(s), 1)[1]]

RECURSIVE getGraphicIdEach(_, _)
getGraphicIdEach(s, gs) ==
    IF gs = <<>> THEN s ELSE getGraphicIdEach(getGraphicId(s, Head(gs)), Tail(gs))

----------------------------------------------------------------------------
(* Label bookkeeping *)

IndexSet(index, id, ls) ==
    [k \in DOMAIN index \cup {id} |-> IF k = id THEN ls ELSE index[k]]

IndexDelete(index, id) == [k \in DOMAIN index \ {id} |-> index[k]]

\* a defective removePersistedLabelsFor: it forgets the entry but leaves the
\* old labels in the label layer
removePersistedLabelsFor_IndexOnly(s, g) ==
    LET id == s.graphics[g].sid
    IN  IF id = 0 THEN s ELSE [s EXCEPT !.labelIndex = IndexDelete(@, id)]

removePersistedLabelsFor(s, g) ==
    LET id == s.graphics[g].sid
    IN  IF id = 0 THEN s
        ELSE LET arr == IF id \in DOMAIN s.labelIndex THEN s.labelIndex[id] ELSE <<>>
                 s1 == labelLayerRemoveEach(s, arr)
             IN  [s1 EXCEPT !.labelIndex = IndexDelete(@, id)]

clearTempLabels(s) ==
    IF s.tempLabels = <<>> THEN s
    ELSE [labelLayerRemoveEach(s, s.tempLabels) EXCEPT !.tempLabels = <<>>]

\* placeTitleLabel: creates the title graphic and adds it to the label layer
placeTitleLabel(s, geom, settings) ==
    LET ls == NewLabels(s, <<titleLabelContent(geom, settings)>>)
    IN  labelLayerAdd(Reserve(s, ls), ls[1])

\* the graphic placeTitleLabel returns
placedTitle(s, geom, settings) ==
    NewLabels(s, <<titleLabelContent(geom, settings)>>)[1]

\* a defective persist block: the standalone title is added to the label
\* layer but not listed in the entry
persistLabelsFor_UnlistedTitle(s, g, geom, settings) ==
    LET s1 == getGraphicId(s, g)
        gid == s1.graphics[g].sid
        s2 == removePersistedLabelsFor(s1, g)
        labels == NewLabels(s2, makeLabelsForGeometry(geom, settings))
        s3 == labelLayerAddAll(Reserve(s2, labels), labels)
        s4 == IF settings.showTitle THEN placeTitleLabel(s3, geom, settings) ELSE s3
    IN  [s4 EXCEPT !.labelIndex = IndexSet(@, gid, labels)]

\* the persist block shared by the complete phases of create and update:
\* getGraphicId, removePersistedLabelsFor, makeLabelsForGeometry, add each,
\* the standalone title, labelIndex.set
persistLabelsFor(s, g, geom, settings) ==
    LET s1 == getGraphicId(s, g)
        gid == s1.graphics[g].sid
        s2 == removePersistedLabelsFor(s1, g)
        labels == NewLabels(s2, makeLabelsForGeometry(geom, settings))
        s3 == labelLayerAddAll(Reserve(s2, labels), labels)
        s4 == IF settings.showTitle THEN placeTitleLabel(s3, geom, settings) ELSE s3
        persisted == IF settings.showTitle
                     THEN Append(labels, placedTitle(s3, geom, settings))
                     ELSE labels
    IN  [s4 EXCEPT !.labelIndex = IndexSet(@, gid, persisted)]

----------------------------------------------------------------------------
(* Measurement rows *)

Row(label, value) == [label |-> label, value |-> value]

\* a defective row builder: every polygon gets a Radius row
Measurement_RadiusForAll(id, geometryType, tool, rows) ==
    [id |-> id, geometryType |-> geometryType, tool |-> tool,
     rows |-> IF geometryType = "polygon" /\ tool # "circle"
              THEN Append(rows, Row("Radius", Val("radius", <<>>)))
              ELSE rows]

Measurement(id, geometryType, tool, rows) ==
    [id |-> id, geometryType |-> geometryType, tool |-> tool, rows |-> rows]

\* the source a graphic stands for: this.selectionMap.get(g) ?? g
SourceOf(s, g) == IF g \in DOMAIN s.selectionMap THEN s.selectionMap[g] ELSE g

\* buildMeasurementsForGraphics; acc is [s, out]: the state (getGraphicId may
\* attach ids) and the rows built so far
RECURSIVE buildMeasurementsForGraphics(_, _)
buildMeasurementsForGraphics(acc, gs) ==
    IF gs = <<>> THEN acc
    ELSE LET g == Head(gs)
             src == SourceOf(acc.s, g)
             geom == acc.s.graphics[g].geom
             s1 == getGraphicId(acc.s, src)
             id == s1.graphics[src].sid
             tool == s1.graphics[src].tool
             next ==
                 CASE geom.type = "polyline" ->
                        [s |-> s1,
                         out |-> Append(acc.out,
                            Measurement(id, "polyline", tool,
                                <<Row("Total length", geodesicLength(geom)),
                                  Row("Segments", [k |-> "count", of |-> <<>>,
                                                   n |-> Len(segmentLengths(geom))])>>))]
                   [] geom.type = "polygon" ->
                        [s |-> s1,
                         out |-> Append(acc.out,
                            Measurement(id, "polygon", tool,
                                <<Row("Area", geodesicArea(geom)),
                                  Row("Perimeter", geodesicPerimeter(geom))>>
                                \o (IF tool = "circle"
                                    THEN <<Row("Radius", radiusFromPolygon(geom))>>
                                    ELSE <<>>)))]
                   [] OTHER -> acc
         IN  buildMeasurementsForGraphics(next, Tail(gs))

publishMeasurementsFromGraphics(s, gs) ==
    IF s.currentSettings = NoSettings THEN publishMeasurements(s, <<>>)
    ELSE LET r == buildMeasurementsForGraphics([s |-> s, out |-> <<>>], gs)
         IN  publishMeasurements(r.s, r.out)

----------------------------------------------------------------------------
(* Selection / join manager *)

prepareSelectionLayer(s, clear) ==
    LET s1 == [s EXCEPT !.hasSelectionLayer = TRUE]
    IN  IF clear
        THEN [s1 EXCEPT !.selectionLayer = <<>>, !.selectionMap = <<>>]
        ELSE s1

\* a defective endSelectionEdit: it does not clear the selection map
endSelectionEdit_KeepsMap(s, clearLayer) ==
    LET s1 == IF s.hasSelectionLayer /\ clearLayer
              THEN [s EXCEPT !.selectionLayer = <<>>] ELSE s
        s3 == publishMeasurements(s1, <<>>)
        s4 == [s3 EXCEPT !.svmLayer = "draw"]
    IN  setSelectedGraphicIds(s4, <<>>)

endSelectionEdit(s, clearLayer) ==
    LET s1 == IF s.hasSelectionLayer /\ clearLayer
              THEN [s EXCEPT !.selectionLayer = <<>>] ELSE s
        s2 == [s1 EXCEPT !.selectionMap = <<>>]
        s3 == publishMeasurements(s2, <<>>)
        s4 == [s3 EXCEPT !.svmLayer = "draw"]
    IN  setSelectedGraphicIds(s4, <<>>)

\* cloneGraphic: a new Graphic with a clone of the geometry and a copy of
\* the attributes; the attached __sid is not copied
cloneGraphic(s, src) ==
    Alloc(s, NewGraphic(s), s.graphics[src].geom, s.graphics[src].tool)

MapSet(m, c, src) == [k \in DOMAIN m \cup {c} |-> IF k = c THEN src ELSE m[k]]

\* for each source: clone, selectionLayer.add(clone), selectionMap.set(clone, src)
RECURSIVE cloneIntoSelection(_, _)
cloneIntoSelection(s, srcs) ==
    IF srcs = <<>> THEN s
    ELSE LET c == NewGraphic(s)
             s1 == cloneGraphic(s, Head(srcs))
             s2 == [s1 EXCEPT !.selectionLayer = Append(@, c),
                              !.selectionMap = MapSet(@, c, Head(srcs))]
         IN  cloneIntoSelection(s2, Tail(srcs))

\* for each edited graphic with a source: src.geometry = g.geometry.clone()
RECURSIVE copyGeometryToSources(_, _)
copyGeometryToSources(s, gs) ==
    IF gs = <<>> THEN s
    ELSE LET g == Head(gs)
             s1 == IF g \in DOMAIN s.selectionMap
                   THEN [s EXCEPT !.graphics[s.selectionMap[g]].geom = s.graphics[g].geom]
                   ELSE s
         IN  copyGeometryToSources(s1, Tail(gs))

----------------------------------------------------------------------------
(* The svm 'create' and 'update' handlers registered by initialize.  The   *)
(* cancel branches are separate operators: svm.cancel(), svm.create() and  *)
(* svm.update() deliver the cancel phase of the operation in flight.       *)

\* a defective cancel branch of 'create': it also forgets the persisted labels
createCancel_ForgetsLabels(s) ==
    IF s.currentSettings = NoSettings THEN s
    ELSE IF s.selectionMode # "null"
    THEN setSelectedGraphicIds(
            clearTempLabels([s EXCEPT !.selectionMode = "null", !.labelIndex = <<>>]),
            <<>>)
    ELSE clearTempLabels([s EXCEPT !.isEditing = FALSE, !.labelIndex = <<>>])

\* a defective cancel branch of 'create': isEditing is left as it was
createCancel_KeepsEditing(s) ==
    IF s.currentSettings = NoSettings THEN s
    ELSE IF s.selectionMode # "null"
    THEN setSelectedGraphicIds(
            clearTempLabels([s EXCEPT !.selectionMode = "null"]), <<>>)
    ELSE clearTempLabels(s)

\* 'create', state cancel
createCancel(s) ==
    IF s.currentSettings = NoSettings THEN s
    ELSE IF s.selectionMode # "null"
    THEN setSelectedGraphicIds(
            clearTempLabels([s EXCEPT !.selectionMode = "null"]), <<>>)
    ELSE clearTempLabels([s EXCEPT !.isEditing = FALSE])

\* 'update', state cancel
updateCancel(s) ==
    IF s.currentSettings = NoSettings THEN s
    ELSE setSelectedGraphicIds(clearTempLabels([s EXCEPT !.isEditing = FALSE]), <<>>)

\* the SketchViewModel abandons the operation it has in flight and reports
\* its cancel phase
svmCancel(s) ==
    CASE s.svmOp.kind = "create" -> createCancel([s EXCEPT !.svmOp = NoOp])
      [] s.svmOp.kind = "update" -> updateCancel([s EXCEPT !.svmOp = NoOp])
      [] OTHER -> s

\* svm.create(tool)
svmCreate(s, tool) ==
    [svmCancel(s) EXCEPT !.svmOp = [kind |-> "create", tool |-> tool, targets |-> <<>>]]

\* a defective svm.update: the svm is handed the sources, not the clones
svmUpdate_EditsSources(s, gs) ==
    [svmCancel(s) EXCEPT !.svmOp =
        [kind |-> "update", tool |-> "",
         targets |-> [i \in 1..Len(gs) |-> SourceOf(s, gs[i])]]]

\* svm.update(graphics)
svmUpdate(s, gs) ==
    [svmCancel(s) EXCEPT !.svmOp = [kind |-> "update", tool |-> "", targets |-> gs]]

\* the sources of the graphics of a list that have one, in order
RECURSIVE sourcesOf(_, _)
sourcesOf(s, gs) ==
    IF gs = <<>> THEN <<>>
    ELSE (IF Head(gs) \in DOMAIN s.selectionMap
          THEN <<s.selectionMap[Head(gs)]>> ELSE <<>>) \o sourcesOf(s, Tail(gs))

IdsOf(s, gs) == [i \in 1..Len(gs) |-> s.graphics[gs[i]].sid]

\* 'create' in selection mode, state complete with a geometry
marqueeComplete(s, g, geom) ==
    LET s1 == [s EXCEPT !.drawLayer = RemoveFromSeq(@, g)]
        hit(x) == s1.graphics[x].geom # NoGeom /\ Intersects(s1.graphics[x].geom, geom)
        selected == SelectSeq(s1.drawLayer, hit) \o SelectSeq(s1.textLayer, hit)
        s2 == IF selected = <<>> THEN s1
              ELSE LET a == cloneIntoSelection(prepareSelectionLayer(s1, TRUE), selected)
                       b == [a EXCEPT !.svmLayer = "selection"]
                       toEdit == b.selectionLayer
                       c == svmUpdate(b, toEdit)
                       d == publishMeasurementsFromGraphics(c, toEdit)
                       srcs == sourcesOf(d, toEdit)
                       e == getGraphicIdEach(d, srcs)
                   IN  setSelectedGraphicIds(e, IdsOf(e, srcs))
    IN  clearTempLabels([s2 EXCEPT !.selectionMode = "null"])

\* svm.on('create'): g is evt.graphic (0 when the event carries none) and
\* geom is evt.graphic?.geometry
svmOnCreate(s, state, g, geom) ==
    LET settings == s.currentSettings
    IN  IF settings = NoSettings THEN s
        ELSE IF s.selectionMode # "null"
        THEN CASE state = "active" -> s
               [] state = "complete" /\ geom # NoGeom -> marqueeComplete(s, g, geom)
               [] state = "cancel" -> createCancel(s)
               [] OTHER -> s
        ELSE CASE state = "active" /\ geom # NoGeom ->
                    LET s1 == clearTempLabels([s EXCEPT !.isEditing = TRUE])
                    IN  IF settings.showDuringDraw
                        THEN LET labels == NewLabels(s1, makeLabelsForGeometry(geom, settings))
                             IN  labelLayerAddAll(
                                    [Reserve(s1, labels) EXCEPT !.tempLabels = labels],
                                    labels)
                        ELSE s1
               [] state = "complete" /\ geom # NoGeom ->
                    LET s1 == clearTempLabels([s EXCEPT !.isEditing = FALSE])
                        s2 == [s1 EXCEPT !.graphics[g].tool = settings.tool]
                    IN  persistLabelsFor(s2, g, geom, settings)
               [] state = "cancel" -> createCancel(s)
               [] OTHER -> s

\* 'update', state active: the live labels of every target
RECURSIVE addTempLabelsEach(_, _, _)
addTempLabelsEach(s, gs, settings) ==
    IF gs = <<>> THEN s
    ELSE LET geom == s.graphics[Head(gs)].geom
             labels == NewLabels(s, makeLabelsForGeometry(geom, settings))
             s1 == IF geom = NoGeom THEN s
                   ELSE [labelLayerAddAll(Reserve(s, labels), labels)
                            EXCEPT !.tempLabels = s.tempLabels \o labels]
         IN  addTempLabelsEach(s1, Tail(gs), settings)

\* 'update', state complete on the normal edit path: per graphic
RECURSIVE persistLabelsEach(_, _, _)
persistLabelsEach(s, gs, settings) ==
    IF gs = <<>> THEN s
    ELSE LET geom == s.graphics[Head(gs)].geom
             s1 == IF geom = NoGeom THEN s
                   ELSE persistLabelsFor(s, Head(gs), geom, settings)
         IN  persistLabelsEach(s1, Tail(gs), settings)

\* svm.on('update'): gs is evt.graphics
svmOnUpdate(s, state, gs) ==
    LET settings == s.currentSettings
    IN  IF settings = NoSettings THEN s
        ELSE CASE state = "active" ->
                    LET s1 == clearTempLabels([s EXCEPT !.isEditing = TRUE])
                        s2 == IF settings.showDuringDraw
                              THEN addTempLabelsEach(s1, gs, settings) ELSE s1
                        s3 == publishMeasurementsFromGraphics(s2, gs)
                        s4 == getGraphicIdEach(s3, gs)
                    IN  setSelectedGraphicIds(s4, IdsOf(s4, gs))
               [] state = "complete" ->
                    LET s1 == [s EXCEPT !.isEditing = FALSE]
                    IN  IF s1.hasSelectionLayer /\ s1.svmLayer = "selection"
                        THEN endSelectionEdit(
                                copyGeometryToSources(
                                    publishMeasurementsFromGraphics(s1, gs), gs),
                                TRUE)
                        ELSE setSelectedGraphicIds(
                                persistLabelsEach(clearTempLabels(s1), gs, settings),
                                <<>>)
               [] state = "cancel" -> updateCancel(s)
               [] OTHER -> s

----------------------------------------------------------------------------
(* Reflow *)

\* a defective debounce: the pending timeout is not cleared
reflowAllLabelsDebounced_NoClear(s) ==
    IF s.isEditing THEN s
    ELSE LET id == CHOOSE n \in 1..(Cardinality(s.reflowTimer) + 1) :
                       n \notin s.reflowTimer
         IN  [s EXCEPT !.reflowTimer = @ \cup {id}]

\* clearTimeout of the handle held (the timeout armed last), then setTimeout,
\* which hands out an id no armed timeout has
reflowAllLabelsDebounced(s) ==
    IF s.isEditing THEN s
    ELSE LET held == {n \in s.reflowTimer : \A m \in s.reflowTimer : m <= n}
             id == CHOOSE n \in 1..(Cardinality(s.reflowTimer) + 1) :
                       n \notin s.reflowTimer
         IN  [s EXCEPT !.reflowTimer = (@ \ held) \cup {id}]

\* labelLayer.removeAll()
labelLayerRemoveAll(s) ==
    [s EXCEPT !.labelLayer = <<>>, !.labelOps = Append(@, LayerOp("removeAll", 0))]

\* the labels of every entry of the index (entries taken by ascending id)
IndexedLabels(index) ==
    Flatten([i \in 1..Cardinality(DOMAIN index) |-> index[SortedSeq(DOMAIN index)[i]]])

\* the regeneration loop of reflowAllLabels over the draw layer
RECURSIVE reflowEach(_, _, _)
reflowEach(s, gs, settings) ==
    IF gs = <<>> THEN s
    ELSE LET g == Head(gs)
             geom == s.graphics[g].geom
             s1 == getGraphicId(s, g)
             gid == s1.graphics[g].sid
             labels == NewLabels(s1, makeLabelsForGeometry(geom, settings))
             s2 == labelLayerAddAll(Reserve(s1, labels), labels)
             withTitle == geom.type = "point" /\ settings.showTitle
             s3 == IF withTitle THEN placeTitleLabel(s2, geom, settings) ELSE s2
             persisted == IF withTitle
                          THEN Append(labels, placedTitle(s2, geom, settings))
                          ELSE labels
             s4 == [s3 EXCEPT !.labelIndex = IndexSet(@, gid, persisted)]
         IN  reflowEach(IF geom = NoGeom THEN s ELSE s4, Tail(gs), settings)

\* a defective reflow: the labels are left as they are
reflowAllLabels_KeepsLabels(s) == s

reflowAllLabels(s) ==
    LET settings == s.currentSettings
    IN  IF settings = NoSettings THEN s
        ELSE LET s1 == IF DOMAIN s.labelIndex = {} /\ Len(s.labelLayer) > 0
                       THEN labelLayerRemoveAll(s)
                       ELSE labelLayerRemoveEach(s, IndexedLabels(s.labelIndex))
                 s2 == [s1 EXCEPT !.labelIndex = <<>>]
             IN  reflowEach(s2, s2.drawLayer, settings)

----------------------------------------------------------------------------
(* Entry points of the service *)

updateSettings(s, settings) ==
    reflowAllLabelsDebounced([s EXCEPT !.currentSettings = settings])

\* this.textClickHandler?.remove(); this.textClickHandler = null
removeTextClickHandler(s) ==
    [s EXCEPT !.textClickHandles = IF s.textClickHandler # NoSettings THEN @ - 1 ELSE @,
              !.textClickHandler = NoSettings]

\* enableTextPlacement: view.on('click', ...) registers one more handler and
\* the handle is stored
enableTextPlacement(s, settings) ==
    [s EXCEPT !.textClickHandles = @ + 1, !.textClickHandler = settings]

\* a defective startDraw: the handler installed before is left registered
startDraw_KeepsHandler(s, settings) ==
    LET s1 == publishAllGraphics(
                  endSelectionEdit([s EXCEPT !.currentSettings = settings], FALSE))
        s2 == [s1 EXCEPT !.svmLayer = "draw"]
    IN  IF settings.tool = "text"
        THEN enableTextPlacement(s2, settings)
        ELSE svmCreate(s2, settings.tool)

startDraw(s, settings) ==
    LET s1 == publishAllGraphics(
                  endSelectionEdit([s EXCEPT !.currentSettings = settings], FALSE))
        s2 == [removeTextClickHandler(s1) EXCEPT !.svmLayer = "draw"]
    IN  IF settings.tool = "text"
        THEN enableTextPlacement(s2, settings)
        ELSE svmCreate(s2, settings.tool)

clearAll(s) ==
    publishAllGraphics(
        labelLayerRemoveAll([s EXCEPT !.drawLayer = <<>>, !.textLayer = <<>>]))

startSelection(s) ==
    LET s1 == [removeTextClickHandler(s) EXCEPT !.selectionMode = "rectangle"]
    IN  svmCreate(clearTempLabels(s1), "rectangle")

clearSelection(s) == endSelectionEdit(svmCancel(s), TRUE)

\* [...draw, ...text].find(g => this.getGraphicId(g) === graphicId): the
\* state after the scan (ids are attached to the graphics it passes)
RECURSIVE findScan(_, _, _)
findScan(s, gs, graphicId) ==
    IF gs = <<>> THEN s
    ELSE LET s1 == getGraphicId(s, Head(gs))
         IN  IF s1.graphics[Head(gs)].sid = graphicId THEN s1
             ELSE findScan(s1, Tail(gs), graphicId)

\* the graphic the scan returns, 0 for undefined
RECURSIVE findResult(_, _, _)
findResult(s, gs, graphicId) ==
    IF gs = <<>> THEN 0
    ELSE LET s1 == getGraphicId(s, Head(gs))
         IN  IF s1.graphics[Head(gs)].sid = graphicId THEN Head(gs)
             ELSE findResult(s1, Tail(gs), graphicId)

\* the resolve loop of selectGraphics; acc is [s, found]
RECURSIVE resolveIds(_, _)
resolveIds(acc, ids) ==
    IF ids = <<>> THEN acc
    ELSE LET all == acc.s.drawLayer \o acc.s.textLayer
             g == findResult(acc.s, all, Head(ids))
         IN  resolveIds([s |-> findScan(acc.s, all, Head(ids)),
                         found |-> IF g = 0 THEN acc.found ELSE Append(acc.found, g)],
                        Tail(ids))

selectGraphics(s, graphicIds) ==
    LET r == resolveIds([s |-> clearSelection(s), found |-> <<>>], graphicIds)
    IN  IF r.found = <<>> THEN r.s
        ELSE LET a == cloneIntoSelection(prepareSelectionLayer(r.s, TRUE), r.found)
                 clones == a.selectionLayer
                 b == svmUpdate([a EXCEPT !.svmLayer = "selection"], clones)
             IN  setSelectedGraphicIds(publishMeasurementsFromGraphics(b, clones),
                                       graphicIds)

\* the one-shot click handler installed by enableTextPlacement: it adds the
\* text, then removes the handle the field holds
textPlacementClick(s, v) ==
    LET g == NewGraphic(s)
        s1 == Alloc(s, g, PointGeom(v), "text")
    IN  removeTextClickHandler(
            publishAllGraphics([s1 EXCEPT !.textLayer = Append(@, g)]))

\* a click on the view reaches every registered handler of enableTextPlacement
RECURSIVE textPlacementClicks(_, _, _)
textPlacementClicks(s, v, n) ==
    IF n = 0 THEN s ELSE textPlacementClicks(textPlacementClick(s, v), v, n - 1)

\* view.on('click') of initialize, after the hit test resolved to the text
\* graphic src
clickSelect(s, src) ==
    LET a == cloneIntoSelection(prepareSelectionLayer(s, TRUE), <<src>>)
        clone == a.selectionLayer
        b == svmUpdate([a EXCEPT !.svmLayer = "selection"], clone)
    IN  publishMeasurementsFromGraphics(b, clone)

----------------------------------------------------------------------------
(* ExportService.importEsriJson and AppComponent.onFileSelected *)

GraphicJson(geom, tool) == [geom |-> geom, tool |-> tool]

SavedLabel ==
    Content(Text("saved", <<>>, "saved"),
            [k |-> "point", of |-> PointGeom(1).parts], NoOffset, 0)

Payload(isObject, version, draw, labels, text) ==
    [isObject |-> isObject, version |-> version, draw |-> draw,
     labels |-> labels, text |-> text]

\* the files the user is made to select; version 0 stands for a payload
\* without a version field
PayloadSamples ==
    { Payload(TRUE, 2, <<GraphicJson(PolylineGeom(1), "polyline")>>, <<SavedLabel>>,
              <<GraphicJson(PointGeom(2), "text")>>),
      Payload(TRUE, 2, <<>>, <<SavedLabel>>, <<>>),
      Payload(TRUE, 3, <<GraphicJson(PointGeom(1), "point")>>, <<>>, <<>>) }

\* a defective importer: a payload of any other version is read as version 2
importEsriJson_AnyVersion(payload) ==
    LET version == IF payload.version = 0 THEN 1 ELSE payload.version
    IN  IF ~payload.isObject
        THEN [ok |-> TRUE, draw |-> <<>>, labels |-> <<>>, text |-> <<>>]
        ELSE [ok |-> TRUE, draw |-> payload.draw, labels |-> payload.labels,
              text |-> IF version = 1 THEN <<>> ELSE payload.text]

\* importEsriJson: [ok, draw, labels, text]; ok is FALSE where it throws
importEsriJson(payload) ==
    LET version == IF payload.version = 0 THEN 1 ELSE payload.version
    IN  IF ~payload.isObject
        THEN [ok |-> TRUE, draw |-> <<>>, labels |-> <<>>, text |-> <<>>]
        ELSE IF version = 1
        THEN [ok |-> TRUE, draw |-> payload.draw, labels |-> payload.labels,
              text |-> <<>>]
        ELSE IF version # 2
        THEN [ok |-> FALSE, draw |-> <<>>, labels |-> <<>>, text |-> <<>>]
        ELSE [ok |-> TRUE, draw |-> payload.draw, labels |-> payload.labels,
              text |-> payload.text]

\* layer.add(Graphic.fromJSON(j)) for each entry
RECURSIVE addImported(_, _, _)
addImported(s, js, layer) ==
    IF js = <<>> THEN s
    ELSE LET g == NewGraphic(s)
             s1 == Alloc(s, g, Head(js).geom, Head(js).tool)
             s2 == IF layer = "draw"
                   THEN [s1 EXCEPT !.drawLayer = Append(@, g)]
                   ELSE [s1 EXCEPT !.textLayer = Append(@, g)]
         IN  addImported(s2, Tail(js), layer)

\* the reader.onload callback of onFileSelected
onFileSelected(s, payload) ==
    LET result == importEsriJson(payload)
    IN  IF ~result.ok THEN s
        ELSE LET s1 == addImported(clearAll(s), result.draw, "draw")
                 labels == NewLabels(s1, result.labels)
                 s2 == labelLayerAddAll(Reserve(s1, labels), labels)
             IN  addImported(s2, result.text, "text")

----------------------------------------------------------------------------
(* The state machine *)

\* the Graphic objects something still refers to
Live(s) ==
    SeqToSet(s.drawLayer) \cup SeqToSet(s.textLayer) \cup SeqToSet(s.selectionLayer)
    \cup DOMAIN s.selectionMap \cup Range(s.selectionMap)
    \cup SeqToSet(s.svmOp.targets) \cup SeqToSet(s.pendingHits)
    \cup SeqToSet(s.allGraphics)

\* what the history variable lastOp records of a step: the entry point or
\* event, its phase, and whether the svm was editing through the selection
\* layer when the step began
Last(name, state) ==
    [name |-> name, state |-> state,
     viaSel |-> hasSelectionLayer /\ svmLayer = "selection"]

\* the model's bounds on the graphics held by the layers and on the ids
\* handed out
WithinBounds(s) ==
    /\ Len(s.drawLayer) + Len(s.textLayer) <= MaxShapes
    /\ Len(s.selectionLayer) <= MaxShapes
    /\ \A id \in UsedSids(s) : id <= MaxSids

\* the step's result becomes the next state
Commit(s, last) ==
    /\ WithinBounds(s)
    /\ s # Cur
    /\ steps < MaxSteps
    /\ steps' = steps + 1
    /\ graphics' = [g \in Live(s) |-> s.graphics[g]]
    /\ drawLayer' = s.drawLayer
    /\ labelLayer' = s.labelLayer
    /\ textLayer' = s.textLayer
    /\ selectionLayer' = s.selectionLayer
    /\ hasSelectionLayer' = s.hasSelectionLayer
    /\ svmLayer' = s.svmLayer
    /\ svmOp' = s.svmOp
    /\ textClickHandler' = s.textClickHandler
    /\ textClickHandles' = s.textClickHandles
    /\ tempLabels' = s.tempLabels
    /\ selectionMode' = s.selectionMode
    /\ isEditing' = s.isEditing
    /\ reflowTimer' = s.reflowTimer
    /\ selectionMap' = s.selectionMap
    /\ labelIndex' = s.labelIndex
    /\ currentSettings' = s.currentSettings
    /\ allGraphics' = s.allGraphics
    /\ pendingHits' = s.pendingHits
    /\ published' = s.published
    /\ labelOps' = s.labelOps
    /\ lastOp' = last

\* the state after initialize and AppComponent.onMapReady: the layers are
\* empty and the settings are those restored from storage, if any
Init ==
    /\ graphics = <<>>
    /\ drawLayer = <<>>
    /\ labelLayer = <<>>
    /\ textLayer = <<>>
    /\ selectionLayer = <<>>
    /\ hasSelectionLayer = FALSE
    /\ svmLayer = "draw"
    /\ svmOp = NoOp
    /\ textClickHandler = NoSettings
    /\ textClickHandles = 0
    /\ tempLabels = <<>>
    /\ selectionMode = "null"
    /\ isEditing = FALSE
    /\ reflowTimer = {}
    /\ selectionMap = <<>>
    /\ labelIndex = <<>>
    /\ currentSettings \in {NoSettings} \cup SettingsSamples
    /\ allGraphics = <<>>
    /\ pendingHits = <<>>
    /\ published = <<>>
    /\ labelOps = <<>>
    /\ lastOp = [name |-> "init", state |-> "", viaSel |-> FALSE]
    /\ steps = 0

\* AppComponent.onSettingsChange
UpdateSettings ==
    \E settings \in SettingsSamples :
        Commit(updateSettings(Cur, settings), Last("updateSettings", ""))

\* AppComponent.onStartDraw: startDraw(latestSettings)
StartDraw ==
    /\ currentSettings # NoSettings
    /\ Commit(startDraw(Cur, currentSettings), Last("startDraw", ""))

\* SidebarComponent.onClear: clearAll, then clearSelection
Clear ==
    Commit(clearSelection(clearAll(Cur)), Last("clear", ""))

\* AppComponent.onSelectByRect
StartSelection ==
    Commit(startSelection(Cur), Last("startSelection", ""))

\* the selections a click on a table row can ask for: one row, or two
\* rows (ctrl-click on a second row)
RowChoices ==
    {<<a>> : a \in SeqToSet(allGraphics)}
    \cup {q \in {<<a, b>> : a, b \in SeqToSet(allGraphics)} : q[1] # q[2]}

\* SketchTableComponent.onRowClick: getGraphicId on the row's graphic, then
\* selectGraphics on the resulting list of ids
SelectGraphics ==
    \E rows \in RowChoices :
        LET s1 == getGraphicIdEach(Cur, rows)
        IN  Commit(selectGraphics(s1, IdsOf(s1, rows)), Last("selectGraphics", ""))

\* ctrl-click on the only selected row: selectGraphics([]), which is
\* clearSelection() and nothing more
ClearSelection ==
    Commit(selectGraphics(Cur, <<>>), Last("clearSelection", ""))

\* a click on the view: the click handler of initialize starts a hit test
\* unless its guard returns; the one-shot text handler, if installed, places
\* the text (at the first sample point).  hit is the text graphic under the
\* pointer, 0 for none.
ViewClick ==
    \E hit \in SeqToSet(textLayer) \cup {0} :
        LET guarded == textClickHandler # NoSettings \/ selectionMode # "null"
            s1 == IF guarded \/ hit = 0 THEN Cur
                  ELSE [Cur EXCEPT !.pendingHits = Append(@, hit)]
            s2 == textPlacementClicks(s1, 1, textClickHandles)
        IN  /\ Len(s1.pendingHits) <= MaxPendingHits
            /\ Commit(s2, Last("click", ""))

\* the hit test of an earlier click resolves
ResolveHit ==
    \E i \in 1..Len(pendingHits) :
        LET src == pendingHits[i]
            s1 == [Cur EXCEPT !.pendingHits =
                      SubSeq(pendingHits, 1, i - 1) \o SubSeq(pendingHits, i + 1, Len(pendingHits))]
        IN  Commit(IF src \in SeqToSet(textLayer) THEN clickSelect(s1, src) ELSE s1,
                   Last("resolveHit", ""))

\* updateOnGraphicClick: the svm starts an update of a graphic of its layer
SvmGraphicClick ==
    /\ svmOp.kind = "none"
    /\ textClickHandler = NoSettings
    /\ \E g \in SeqToSet(IF svmLayer = "draw" THEN drawLayer ELSE selectionLayer) :
        Commit(svmUpdate(Cur, <<g>>), Last("svmGraphicClick", ""))

\* the geometries a create operation can report for its tool
CreateGeoms ==
    IF selectionMode # "null" /\ svmOp.tool = "rectangle"
    THEN MarqueeSamples
    ELSE {GeomOf(GeomTypeOfTool(svmOp.tool), 1)}

\* 'create', state active
CreateActive ==
    /\ svmOp.kind = "create"
    /\ \E geom \in CreateGeoms \cup {NoGeom} :
        Commit(svmOnCreate(Cur, "active", 0, geom), Last("create", "active"))

\* the svm finishes a creation: it adds the finished graphic to its layer
\* and reports state complete to the 'create' handler
svmCompleteCreate(s, geom) ==
    LET g == NewGraphic(s)
        s1 == Alloc([s EXCEPT !.svmOp = NoOp], g, geom, "")
        s2 == IF s.svmLayer = "draw"
              THEN [s1 EXCEPT !.drawLayer = Append(@, g)]
              ELSE [s1 EXCEPT !.selectionLayer = Append(@, g)]
    IN  svmOnCreate(s2, "complete", g, geom)

\* 'create', state complete
CreateComplete ==
    /\ svmOp.kind = "create"
    /\ \E geom \in CreateGeoms :
        Commit(svmCompleteCreate(Cur, geom), Last("create", "complete"))

\* 'create', state cancel
CreateCancel ==
    /\ svmOp.kind = "create"
    /\ Commit(svmCancel(Cur), Last("create", "cancel"))

\* the svm moves the graphics it is updating: each gets the other variant
\* of its geometry
RECURSIVE moveEach(_, _)
moveEach(s, gs) ==
    IF gs = <<>> THEN s
    ELSE LET geom == s.graphics[Head(gs)].geom
             v == IF geom = GeomOf(geom.type, 1) THEN 2 ELSE 1
             s1 == IF geom = NoGeom THEN s
                   ELSE [s EXCEPT !.graphics[Head(gs)].geom = GeomOf(geom.type, v)]
         IN  moveEach(s1, Tail(gs))

\* 'update', state active
UpdateActive ==
    /\ svmOp.kind = "update"
    /\ Commit(svmOnUpdate(moveEach(Cur, svmOp.targets), "active", svmOp.targets),
              Last("update", "active"))

\* 'update', state complete
UpdateComplete ==
    /\ svmOp.kind = "update"
    /\ Commit(svmOnUpdate([Cur EXCEPT !.svmOp = NoOp], "complete", svmOp.targets),
              Last("update", "complete"))

\* 'update', state cancel
UpdateCancel ==
    /\ svmOp.kind = "update"
    /\ Commit(svmCancel(Cur), Last("update", "cancel"))

\* view.watch('stationary') / view.watch('scale')
ReflowTrigger ==
    Commit(reflowAllLabelsDebounced(Cur), Last("reflowTrigger", ""))

\* the timeout set by reflowAllLabelsDebounced fires
ReflowTimerFires ==
    \E id \in reflowTimer :
        Commit(reflowAllLabels([Cur EXCEPT !.reflowTimer = @ \ {id}]),
               Last("reflow", ""))

\* AppComponent.onFileSelected, reader.onload
ImportFile ==
    \E payload \in PayloadSamples :
        Commit(onFileSelected(Cur, payload), Last("import", ""))

Next ==
    \/ UpdateSettings
    \/ StartDraw
    \/ Clear
    \/ StartSelection
    \/ SelectGraphics
    \/ ClearSelection
    \/ ViewClick
    \/ ResolveHit
    \/ SvmGraphicClick
    \/ CreateActive
    \/ CreateComplete
    \/ CreateCancel
    \/ UpdateActive
    \/ UpdateComplete
    \/ UpdateCancel
    \/ ReflowTrigger
    \/ ReflowTimerFires
    \/ ImportFile

Spec == Init /\ [][Next]_vars

----------------------------------------------------------------------------
(* Properties.  A step is identified by what lastOp' records of it; the    *)
(* unprimed variables are the state the handler found.                     *)

LidsOf(q) == {q[i].lid : i \in 1..Len(q)}

IndexLids(index) == UNION {LidsOf(index[k]) : k \in DOMAIN index}

Sources(m) == Range(m)

\* the update operation reports complete while svm.layer is the selection layer
CommitStep ==
    lastOp'.name = "update" /\ lastOp'.state = "complete" /\ lastOp'.viaSel

\* the cancel phase of a creation (normal or marquee) or of an update, or
\* clearSelection
CancelStep ==
    \/ lastOp'.name \in {"create", "update"} /\ lastOp'.state = "cancel"
    \/ lastOp'.name = "clearSelection"

\* an operation begins: a tool is started, or a selection (table, click on a
\* text, marquee complete) starts the update of its clones
StartStep ==
    \/ lastOp'.name \in {"startDraw", "startSelection", "selectGraphics",
                         "resolveHit", "svmGraphicClick"}
    \/ lastOp'.name = "create" /\ lastOp'.state = "complete" /\ svmOp'.kind = "update"

ActiveStep == lastOp'.state = "active"

\* the label index and the membership of the draw and text layers are as before
LayersKept ==
    labelIndex' = labelIndex /\ drawLayer' = drawLayer /\ textLayer' = textLayer

\* the positions of the step's label-layer calls of one kind on one label
OpsAt(op, lid) ==
    {i \in 1..Len(labelOps') : labelOps'[i].op = op /\ labelOps'[i].lid = lid}

AddsOf(lids) ==
    {i \in 1..Len(labelOps') : labelOps'[i].op = "add" /\ labelOps'[i].lid \in lids}

\* C1: when an update reports complete while svm.layer is the working
\* collection, every edited clone with an entry in the selection map has its
\* geometry copied onto its source, and the working collection is empty when
\* the handler returns.
C1_CommitCopiesAndEmpties ==
    [][ CommitStep =>
          /\ \A c \in SeqToSet(svmOp.targets) \cap DOMAIN selectionMap :
                selectionMap[c] \in DOMAIN graphics'
                    => graphics'[selectionMap[c]].geom = graphics[c].geom
          /\ selectionLayer' = <<>> ]_vars

\* C1, the state the failing run ends in: the complete phase was handled and
\* the working collection still holds the clone
C1_CommitIgnored ==
    /\ lastOp.name = "update" /\ lastOp.state = "complete" /\ lastOp.viaSel
    /\ selectionLayer # <<>>
    /\ selectionMap # <<>>

\* C2: the geometry of a source shape of a joint-editing session is changed
\* by no step (beginning the session, active-phase events, changes made to
\* the clones) other than the complete phase of an update running through
\* the working collection.
C2_SourcesChangeOnlyAtCommit ==
    [][ \A g \in (Sources(selectionMap) \cup Sources(selectionMap'))
                    \cap DOMAIN graphics \cap DOMAIN graphics' :
          graphics'[g].geom # graphics[g].geom => CommitStep ]_vars

\* C2, its case: an active-phase event of a joint edit has been handled and
\* a clone's geometry differs from its source's
C2_CloneMovedSourceNot ==
    /\ lastOp.name = "update" /\ lastOp.state = "active" /\ lastOp.viaSel
    /\ \E c \in DOMAIN selectionMap :
          graphics[c].geom # graphics[selectionMap[c]].geom

C4_MapClearedOnCommitOrCancel ==
    [][ ( \/ lastOp'.name = "update" /\ lastOp'.state \in {"complete", "cancel"}
                /\ lastOp'.viaSel
          \/ lastOp'.name = "clearSelection" )
        => selectionMap' = <<>> ]_vars

\* C4, the state the failing run ends in: the cancel phase of a joint edit
\* was handled with settings present and the map still has its entries
C4_MapKeptAfterCancel ==
    /\ lastOp.name = "update" /\ lastOp.state = "cancel" /\ lastOp.viaSel
    /\ currentSettings # NoSettings
    /\ selectionMap # <<>>

C6_ClonesBorrowSourceIds ==
    /\ \A g \in SeqToSet(selectionLayer) : graphics[g].sid = 0
    /\ (lastOp.name = "update" /\ lastOp.state = "active" /\ lastOp.viaSel) =>
          \A i \in 1..Len(published) :
             /\ published[i].stream = "selectedGraphicIds" =>
                   published[i].ids =
                       [k \in 1..Len(svmOp.targets) |->
                           graphics[SourceOf(Cur, svmOp.targets[k])].sid]
             /\ published[i].stream = "measurements" =>
                   \A k \in 1..Len(published[i].rows) :
                       published[i].rows[k].id \in
                           {graphics[g].sid : g \in Sources(selectionMap)}

\* C6, the state the failing run ends in: a clone carries an id of its own
C6_CloneHasOwnId ==
    \E c \in DOMAIN selectionMap :
        graphics[c].sid # 0 /\ graphics[c].sid # graphics[selectionMap[c]].sid

\* the step replaces the labels of the shapes it reports: creation complete
\* outside selection mode, update complete on the direct-edit path
PersistStep ==
    \/ lastOp'.name = "create" /\ lastOp'.state = "complete" /\ selectionMode = "null"
    \/ lastOp'.name = "update" /\ lastOp'.state = "complete" /\ ~lastOp'.viaSel

\* the ids whose entry the step wrote
Replaced ==
    {id \in DOMAIN labelIndex' :
        id \notin DOMAIN labelIndex \/ labelIndex'[id] # labelIndex[id]}

OldLids(id) == IF id \in DOMAIN labelIndex THEN LidsOf(labelIndex[id]) ELSE {}

\* C7: the label index holds one entry per shape id and no label under two
\* ids, and a replacement of a shape's labels (creation complete, direct-edit
\* update complete) is atomic: every label of the old entry is removed from
\* the label layer before any label of the new entry is added, and the new
\* entry lists exactly the labels the step added.
C7_AtomicReplace ==
    [][ /\ \A a, b \in DOMAIN labelIndex' :
              a # b => LidsOf(labelIndex'[a]) \cap LidsOf(labelIndex'[b]) = {}
        /\ PersistStep =>
              /\ \A id \in Replaced :
                    /\ \A o \in OldLids(id) :
                          /\ o \notin LidsOf(labelLayer')
                          /\ \E i \in OpsAt("remove", o) :
                                \A j \in AddsOf(LidsOf(labelIndex'[id])) : i < j
                    /\ \A n \in LidsOf(labelIndex'[id]) :
                          OpsAt("add", n) # {} /\ n \in LidsOf(labelLayer')
              /\ \A j \in 1..Len(labelOps') :
                    labelOps'[j].op = "add" =>
                        \E id \in Replaced : labelOps'[j].lid \in LidsOf(labelIndex'[id]) ]_vars

\* C7, its case: a direct edit was completed and the shape's old labels were
\* replaced by new ones
C7_LabelsReplaced ==
    /\ lastOp.name = "update" /\ lastOp.state = "complete" /\ ~lastOp.viaSel
    /\ \E i, j \in 1..Len(labelOps) :
          labelOps[i].op = "remove" /\ labelOps[j].op = "add" /\ i < j
    /\ labelIndex # <<>>

\* C8: transient labels are never recorded in the label index; the previous
\* transient set is removed from the label layer before a new set is drawn;
\* and after the complete or cancel phase of any creation or update (direct
\* edit and working collection alike) the label layer holds no transient
\* label.
C8_NoStaleTransientLabels ==
    [][ /\ LidsOf(tempLabels') \cap IndexLids(labelIndex') = {}
        /\ ActiveStep =>
              \A o \in LidsOf(tempLabels) :
                  \/ LidsOf(tempLabels') = LidsOf(tempLabels)
                  \/ \E i \in OpsAt("remove", o) :
                        \A j \in AddsOf(LidsOf(tempLabels')) : i < j
        /\ (lastOp'.name \in {"create", "update"}
                /\ lastOp'.state \in {"complete", "cancel"}) =>
              (LidsOf(tempLabels) \cup LidsOf(tempLabels'))
                  \cap LidsOf(labelLayer') = {} ]_vars

\* C8, the state the failing run ends in: a joint edit was completed and the
\* live labels of its last active phase are still in the label layer
C8_TransientLabelsLeft ==
    /\ lastOp.name = "update" /\ lastOp.state = "complete" /\ lastOp.viaSel
    /\ LidsOf(tempLabels) \cap LidsOf(labelLayer) # {}

\* C9: the body of reflowAllLabels never runs in a state where isEditing is
\* true.
C9_NoReflowWhileEditing ==
    [][ (lastOp'.name = "reflow" /\ currentSettings # NoSettings) => ~isEditing ]_vars

\* C9, the state the failing run ends in: the reflow ran and the operation
\* is still in its active phase
C9_ReflowedWhileEditing ==
    lastOp.name = "reflow" /\ isEditing /\ currentSettings # NoSettings
        /\ svmOp.kind # "none"

IndexContents(index) == [id \in DOMAIN index |-> ContentsOf(index[id])]

\* C10: from any reachable state, running reflowAllLabels twice in a row
\* gives the same label index (ids, and per id the same texts, positions and
\* angles in order) and the same label-layer contents as running it once.
C10_ReflowIdempotent ==
    LET once == reflowAllLabels(Cur)
        twice == reflowAllLabels(once)
    IN  /\ IndexContents(twice.labelIndex) = IndexContents(once.labelIndex)
        /\ ContentsOf(twice.labelLayer) = ContentsOf(once.labelLayer)

\* C10, the state the failing run starts from: clearAll left entries in the
\* index, the draw layer is empty and the label layer holds labels no entry
\* lists
C10_StaleIndexAndOrphans ==
    /\ currentSettings # NoSettings
    /\ drawLayer = <<>>
    /\ labelIndex # <<>>
    /\ LidsOf(labelLayer) \ IndexLids(labelIndex) # {}

\* the ids the handler published as selected
SelectedIdsIn(pub) ==
    UNION {SeqToSet(pub[i].ids) :
              i \in {k \in 1..Len(pub) : pub[k].stream = "selectedGraphicIds"}}

\* C11: whenever a marquee selection is in flight, for every rectangle its
\* complete phase can report, the sources the handler clones into the
\* joint-editing session, and the ids it publishes as selected, are exactly
\* those of the shapes of the draw and text layers whose geometry intersects
\* the rectangle.
C11_MarqueeSelectsIntersecting ==
    (selectionMode # "null" /\ svmOp.kind = "create") =>
        \A rect \in MarqueeSamples :
            LET r == svmCompleteCreate(Cur, rect)
                hits == {x \in SeqToSet(drawLayer \o textLayer) :
                            Intersects(graphics[x].geom, rect)}
                cloned == {r.selectionMap[c] :
                              c \in DOMAIN r.selectionMap \ DOMAIN selectionMap}
            IN  /\ cloned = hits
                /\ SelectedIdsIn(r.published) = {r.graphics[x].sid : x \in hits}

\* C11, the state the failing run ends in: the marquee was completed over a
\* shape, nothing was selected and the rectangle itself is in the draw layer
C11_MarqueeIgnored ==
    /\ lastOp.name = "create" /\ lastOp.state = "complete"
    /\ selectionMode # "null"
    /\ selectionMap = <<>>
    /\ \E m, x \in SeqToSet(drawLayer) :
          /\ graphics[m].geom \in MarqueeSamples
          /\ x # m
          /\ Intersects(graphics[x].geom, graphics[m].geom)

\* the operations in flight: a creation, a marquee selection, an update
\* (joint-editing or direct), a pending one-shot text placement
InFlight ==
    {k \in {"creation", "marquee", "update", "textPlacement"} :
        \/ k = "creation" /\ svmOp.kind = "create" /\ selectionMode = "null"
        \/ k = "marquee" /\ selectionMode # "null"
        \/ k = "update" /\ svmOp.kind = "update"
        \/ k = "textPlacement" /\ textClickHandler # NoSettings}

\* C12: in every reachable state at most one operation (creation, marquee
\* selection, update session, pending text placement) is in flight.
C12_OneOperationAtATime == Cardinality(InFlight) <= 1

\* C12, the state the failing run ends in: startDraw with the text tool has
\* installed the one-shot click handler while the creation started before it
\* is still in flight in the svm
C12_TextPlacementDuringCreate ==
    /\ lastOp.name = "startDraw"
    /\ textClickHandler # NoSettings
    /\ svmOp.kind = "create" /\ selectionMode = "null"
    /\ currentSettings # NoSettings

\* C13: getGraphicId is stable.  No step changes an id a shape already
\* carries; and in every state, for every shape, a call returns an id, a
\* second call returns the same id and changes nothing, and a call on a
\* shape that already carries an id changes nothing.
C13_GetGraphicIdStable ==
    [][ /\ \A g \in DOMAIN graphics \cap DOMAIN graphics' :
              graphics[g].sid # 0 => graphics'[g].sid = graphics[g].sid
        /\ \A g \in DOMAIN graphics :
              LET first == getGraphicId(Cur, g)
                  second == getGraphicId(first, g)
              IN  /\ first.graphics[g].sid # 0
                  /\ second = first
                  /\ graphics[g].sid # 0 => first = Cur ]_vars

\* C13, its case: a direct edit was completed on a shape that got its id
\* when it was created; the handler called getGraphicId on it again and its
\* labels are indexed under that id
C13_IdAskedAgain ==
    /\ lastOp.name = "update" /\ lastOp.state = "complete" /\ ~lastOp.viaSel
    /\ \E g \in SeqToSet(drawLayer) :
          graphics[g].sid # 0 /\ graphics[g].sid \in DOMAIN labelIndex

----------------------------------------------------------------------------
(* Specifications of single functions.  Their steps are recorded whether   *)
(* or not they change the state, and lastOp also records the inputs of the *)
(* step.                                                                   *)

\* the step's result becomes the next state (no-effect steps included)
StepTo(s, last) ==
    /\ steps < MaxSteps
    /\ steps' = steps + 1
    /\ graphics' = [g \in Live(s) |-> s.graphics[g]]
    /\ drawLayer' = s.drawLayer
    /\ labelLayer' = s.labelLayer
    /\ textLayer' = s.textLayer
    /\ selectionLayer' = s.selectionLayer
    /\ hasSelectionLayer' = s.hasSelectionLayer
    /\ svmLayer' = s.svmLayer
    /\ svmOp' = s.svmOp
    /\ textClickHandler' = s.textClickHandler
    /\ textClickHandles' = s.textClickHandles
    /\ tempLabels' = s.tempLabels
    /\ selectionMode' = s.selectionMode
    /\ isEditing' = s.isEditing
    /\ reflowTimer' = s.reflowTimer
    /\ selectionMap' = s.selectionMap
    /\ labelIndex' = s.labelIndex
    /\ currentSettings' = s.currentSettings
    /\ allGraphics' = s.allGraphics
    /\ pendingHits' = s.pendingHits
    /\ published' = s.published
    /\ labelOps' = s.labelOps
    /\ lastOp' = last

----------------------------------------------------------------------------
(* The id generator of getGraphicId: `g-${Date.now()}-${random suffix}`.   *)
(* Spec follows the runs in which every generated id is new; IdSpec lets   *)
(* the clock and the random suffix take every value they can.              *)

\* shapes restored from storage
MaxRestored == 3

\* values of Date.now() (milliseconds) during the session
MaxNow == 2

\* values of Math.random().toString(36).slice(2, 8)
MaxRnd == 2

\* the id string as a number: one number per (clock, suffix) pair
generatedId(now, rnd) == (now - 1) * MaxRnd + rnd

\* getGraphicId when Date.now() and Math.random() return now and rnd
getGraphicIdAt(s, g, now, rnd) ==
    IF s.graphics[g].sid # 0 THEN s
    ELSE [s EXCEPT !.graphics[g].sid = generatedId(now, rnd)]

\* after onMapReady restored saved shapes into the draw layer: restored
\* graphics carry no id
IdInit ==
    /\ graphics = [g \in 1..MaxRestored |->
                      [geom |-> PolygonGeom(1), tool |-> "polygon", sid |-> 0]]
    /\ drawLayer = [g \in 1..MaxRestored |-> g]
    /\ labelLayer = <<>>
    /\ textLayer = <<>>
    /\ selectionLayer = <<>>
    /\ hasSelectionLayer = FALSE
    /\ svmLayer = "draw"
    /\ svmOp = NoOp
    /\ textClickHandler = NoSettings
    /\ textClickHandles = 0
    /\ tempLabels = <<>>
    /\ selectionMode = "null"
    /\ isEditing = FALSE
    /\ reflowTimer = {}
    /\ selectionMap = <<>>
    /\ labelIndex = <<>>
    /\ currentSettings \in {NoSettings} \cup SettingsSamples
    /\ allGraphics = <<>>
    /\ pendingHits = <<>>
    /\ published = <<>>
    /\ labelOps = <<>>
    /\ lastOp = [name |-> "init", state |-> "", viaSel |-> FALSE,
                 g |-> 0, now |-> 1, rnd |-> 0]
    /\ steps = 0

\* a call of getGraphicId on a shape of the draw layer (reflowAllLabels, the
\* 'update' handler): the clock does not run backwards, and two calls can
\* fall into the same millisecond
GetGraphicIdCall ==
    \E g \in SeqToSet(drawLayer), now \in lastOp.now..MaxNow, rnd \in 1..MaxRnd :
        StepTo(getGraphicIdAt(Cur, g, now, rnd),
               [name |-> "getGraphicId", state |-> "", viaSel |-> FALSE,
                g |-> g, now |-> now, rnd |-> rnd])

\* the calls of getGraphicId, and the reflow timer firing (the clock and the
\* suffix of the ids the reflow generates itself are those of a run without
\* collision)
IdNext ==
    \/ GetGraphicIdCall
    \/ StepTo(reflowAllLabels(Cur),
              [name |-> "reflow", state |-> "", viaSel |-> FALSE,
               g |-> 0, now |-> lastOp.now, rnd |-> 0])

IdSpec == IdInit /\ [][IdNext]_vars

\* C14: no two distinct graphics carry the same identifier.
C14_IdsUnique ==
    \A a, b \in DOMAIN graphics :
        (a # b /\ graphics[a].sid # 0) => graphics[a].sid # graphics[b].sid

\* C14, the state the failing run ends in: a call made in the same
\* millisecond as an earlier one drew the same suffix, and two shapes carry
\* one id
C14_SameIdTwice ==
    /\ lastOp.name = "getGraphicId"
    /\ \E a, b \in SeqToSet(drawLayer) :
          a # b /\ graphics[a].sid # 0 /\ graphics[a].sid = graphics[b].sid

----------------------------------------------------------------------------
(* A session that starts from saved shapes: onMapReady restores the saved  *)
(* settings and one saved polygon, whose tool tag is whatever was stored,  *)
(* and the user edits it in place.                                         *)

\* the tool tags a stored polygon can carry ("" for none)
ToolTags == {"circle", "polygon", "rectangle", ""}

\* the stored settings: tool, showDuringDraw, showTotals and
\* showCircleRadius vary
SavedSettings ==
    {MkSettings(tool, "Label", du, FALSE, tot, rad, FALSE) :
        tool \in {"circle", "polygon"}, du \in BOOLEAN, tot \in BOOLEAN,
        rad \in BOOLEAN}

SavedInit ==
    /\ \E tag \in ToolTags :
          graphics = <<[geom |-> PolygonGeom(1), tool |-> tag, sid |-> 0]>>
    /\ drawLayer = <<1>>
    /\ labelLayer = <<>>
    /\ textLayer = <<>>
    /\ selectionLayer = <<>>
    /\ hasSelectionLayer = FALSE
    /\ svmLayer = "draw"
    /\ svmOp = NoOp
    /\ textClickHandler = NoSettings
    /\ textClickHandles = 0
    /\ tempLabels = <<>>
    /\ selectionMode = "null"
    /\ isEditing = FALSE
    /\ reflowTimer = {}
    /\ selectionMap = <<>>
    /\ labelIndex = <<>>
    /\ currentSettings \in SavedSettings
    /\ allGraphics = <<>>
    /\ pendingHits = <<>>
    /\ published = <<>>
    /\ labelOps = <<>>
    /\ lastOp = [name |-> "init", state |-> "", viaSel |-> FALSE]
    /\ steps = 0

SavedNext ==
    \/ SvmGraphicClick
    \/ UpdateActive
    \/ UpdateComplete
    \/ UpdateCancel

SavedSpec == SavedInit /\ [][SavedNext]_vars

\* the measurements the step published
MeasurementsIn(pub) ==
    UNION {SeqToSet(pub[i].rows) :
              i \in {x \in 1..Len(pub) : pub[x].stream = "measurements"}}

\* the labels of the rows published for the shape with the given id
RowLabelsFor(pub, id) ==
    UNION {{m.rows[j].label : j \in 1..Len(m.rows)} :
              m \in {x \in MeasurementsIn(pub) : x.id = id}}

\* C15: when the active phase of an update publishes measurements, every
\* polygon being edited gets its rows; a polygon tagged tool = "circle" (with
\* showCircleRadius on) gets a row labelled "Radius", and a polygon with any
\* other tag gets none.
C15_RadiusRowIffCircle ==
    [][ (lastOp'.name = "update" /\ lastOp'.state = "active"
            /\ currentSettings # NoSettings) =>
          \A g \in SeqToSet(svmOp.targets) :
              graphics'[g].geom.type = "polygon" =>
                  LET src == SourceOf(Cur, g)
                      tool == graphics[src].tool
                      labels == RowLabelsFor(published', graphics'[src].sid)
                  IN  /\ "Area" \in labels
                      /\ (tool = "circle" /\ currentSettings.showCircleRadius)
                            => "Radius" \in labels
                      /\ tool # "circle" => "Radius" \notin labels ]_vars

\* C15, its case: the rows of a polygon tagged "circle" were published with
\* showCircleRadius on, and they include the Radius row
C15_RadiusPublished ==
    /\ lastOp.name = "update" /\ lastOp.state = "active"
    /\ currentSettings.showCircleRadius
    /\ \E g \in SeqToSet(drawLayer) :
          /\ graphics[g].tool = "circle"
          /\ "Radius" \in RowLabelsFor(published, graphics[g].sid)

----------------------------------------------------------------------------
(* Segment label angles *)

\* the bearings Math.atan2 can return, in whole degrees
Bearings == (-179)..180

\* C16: the angle stored on a segment label lies in [-90, 90] and is the
\* edge bearing, the bearing minus 180 (bearing above 90) or the bearing plus
\* 180 (bearing below -90); a bearing of 170 gives -10.  Stated for every
\* whole-degree bearing, for the segment labels makeLabelsForGeometry builds
\* (segment lengths on) for every line or polygon of the draw and selection
\* layers, and for every label in the label layer.
C16_SegmentAnglesNormalized ==
    /\ \A b \in Bearings :
          /\ NormalizeAngle(b) \in (-90)..90
          /\ NormalizeAngle(b) = (CASE b > 90 -> b - 180
                                    [] b < -90 -> b + 180
                                    [] OTHER -> b)
    /\ NormalizeAngle(170) = -10
    /\ \A g \in SeqToSet(drawLayer \o selectionLayer) :
          graphics[g].geom.type \in {"polyline", "polygon"} =>
              LET geom == graphics[g].geom
                  settings == MkSettings("polygon", "Label", TRUE, TRUE, TRUE, TRUE, TRUE)
                  labels == makeLabelsForGeometry(geom, settings)
                  segments == getSegments(geom)
              IN  \A i \in 1..Len(segments) :
                      LET b == getSegmentAngle(segments[i])
                      IN  /\ labels[i].angle \in (-90)..90
                          /\ labels[i].angle = (CASE b > 90 -> b - 180
                                                  [] b < -90 -> b + 180
                                                  [] OTHER -> b)
    /\ \A i \in 1..Len(labelLayer) : labelLayer[i].angle \in (-90)..90

\* C16, its case: a polygon with an edge of bearing 135 is in the draw layer
\* and its segment label is in the label layer with angle -45
C16_RotatedLabelStored ==
    \E g \in SeqToSet(drawLayer) :
        /\ graphics[g].geom.type = "polygon"
        /\ \E i \in 1..Len(getSegments(graphics[g].geom)) :
              /\ getSegmentAngle(getSegments(graphics[g].geom)[i]) = 135
              /\ \E k \in 1..Len(labelLayer) :
                    /\ labelLayer[k].angle = -45
                    /\ labelLayer[k].anchor =
                          [k |-> "point",
                           of |-> << <<getSegmentMidpoint(getSegments(graphics[g].geom)[i])>> >>]

----------------------------------------------------------------------------
(* Export and import of files.  Graphic.toJSON keeps the geometry, the     *)
(* symbol and the attributes of a graphic; the attached id and the         *)
(* identity of the object are not part of the JSON.                        *)

\* g.toJSON() for a shape and for a label
toJSON(s, g) == GraphicJson(s.graphics[g].geom, s.graphics[g].tool)

\* a defective exporter: the text layer is left out of the payload
exportEsriJson_NoText(s) ==
    Payload(TRUE, 2,
            [i \in 1..Len(s.drawLayer) |-> toJSON(s, s.drawLayer[i])],
            ContentsOf(s.labelLayer),
            <<>>)

\* ExportService.exportEsriJson on the three layers (AppComponent.onExport)
exportEsriJson(s) ==
    Payload(TRUE, 2,
            [i \in 1..Len(s.drawLayer) |-> toJSON(s, s.drawLayer[i])],
            ContentsOf(s.labelLayer),
            [i \in 1..Len(s.textLayer) |-> toJSON(s, s.textLayer[i])])

\* the files the user selects: payloads of version 1, 2 and 3 and without a
\* version (0), and a file that holds no object
ImportPayloads ==
    {Payload(TRUE, v, <<GraphicJson(PolylineGeom(1), "polyline")>>, <<SavedLabel>>,
             <<GraphicJson(PointGeom(2), "text")>>) : v \in 0..3}
    \cup {Payload(TRUE, v, <<GraphicJson(PolygonGeom(2), "polygon")>>, <<>>, <<>>) :
             v \in 1..3}
    \cup {Payload(FALSE, 0, <<>>, <<>>, <<>>)}

\* AppComponent.onFileSelected with a file from disk
ImportPayload ==
    \E payload \in ImportPayloads :
        StepTo(onFileSelected(Cur, payload),
               [name |-> "import", state |-> "", viaSel |-> FALSE,
                payload |-> payload])

\* AppComponent.onExport, then onFileSelected with the file just exported
ReimportExport ==
    StepTo(onFileSelected(Cur, exportEsriJson(Cur)),
           [name |-> "reimport", state |-> "", viaSel |-> FALSE,
            payload |-> exportEsriJson(Cur)])

ImportNext == ImportPayload \/ ReimportExport

ImportSpec == Init /\ [][ImportNext]_vars

\* the geometries of the shapes of a layer, in order
GeomsOf(heap, layer) == [i \in 1..Len(layer) |-> heap[layer[i]].geom]

JsonGeoms(js) == [i \in 1..Len(js) |-> js[i].geom]

\* C17: an import of a version 2 payload puts its draw, label and text
\* entries into the three layers, an import of a version 1 payload its draw
\* and label entries (no text); an import of any other version fails with
\* the unsupported-version error and leaves the three layers exactly as they
\* were.
C17_ImportVersions ==
    [][ lastOp'.name = "import" /\ lastOp'.payload.isObject =>
          LET p == lastOp'.payload
          IN  /\ p.version \in {1, 2} =>
                    /\ importEsriJson(p).ok
                    /\ GeomsOf(graphics', drawLayer') = JsonGeoms(p.draw)
                    /\ ContentsOf(labelLayer') = p.labels
                    /\ GeomsOf(graphics', textLayer') =
                          (IF p.version = 2 THEN JsonGeoms(p.text) ELSE <<>>)
              /\ p.version \notin {0, 1, 2} =>
                    /\ ~importEsriJson(p).ok
                    /\ drawLayer' = drawLayer
                    /\ labelLayer' = labelLayer
                    /\ textLayer' = textLayer
                    /\ \A g \in SeqToSet(drawLayer \o textLayer) :
                          graphics'[g] = graphics[g] ]_vars

\* C17, its case: a file of version 3 was selected while the layers held
\* shapes and labels, and they are still there
C17_UnsupportedRejected ==
    /\ lastOp.name = "import" /\ lastOp.payload.version = 3
    /\ drawLayer # <<>> /\ labelLayer # <<>> /\ textLayer # <<>>

----------------------------------------------------------------------------
(* MeasurementService on the results of the geometry engine.  A result of  *)
(* the engine is a JavaScript value: a finite number (here 0 or 5), NaN,   *)
(* Infinity, null or undefined.                                            *)

\* what a call of the geometry engine can give back
EngineResults == {"0", "5", "NaN", "Infinity", "null", "undefined"}

\* the global isFinite(v): Number(null) is 0, Number(undefined) is NaN
isFinite(v) == v \in {"0", "5", "null"}

\* v ?? 0: only null and undefined are replaced
OrZero(v) == IF v \in {"null", "undefined"} THEN "0" ELSE v

\* geodesicLength with the engine's result given
geodesicLengthGiven(engine) == OrZero(engine)

\* geodesicPerimeter: 0 without a geometry, else geodesicLength of the rings
geodesicPerimeterGiven(hasGeom, engine) ==
    IF ~hasGeom THEN "0" ELSE geodesicLengthGiven(engine)

\* geodesicArea with the engine's geodesic and planar results given
geodesicAreaGiven(engine, planar) ==
    IF ~isFinite(engine) \/ engine = "0" THEN OrZero(planar) ELSE OrZero(engine)

\* radiusFromPolygon: 0 without a centre or a first ring, else the distance
radiusFromPolygonGiven(hasGeom, engine) ==
    IF ~hasGeom THEN "0" ELSE OrZero(engine)

\* one call of geodesicLength, geodesicPerimeter, geodesicArea or
\* radiusFromPolygon; lastOp keeps what the engine gave and what was returned
MeasureNext ==
    LET Measured(name, hasGeom, engine, planar, result) ==
            [name |-> name, state |-> "", viaSel |-> FALSE, hasGeom |-> hasGeom,
             engine |-> engine, planar |-> planar, result |-> result]
    IN  \/ \E engine \in EngineResults :
              StepTo(Cur, Measured("geodesicLength", TRUE, engine, "undefined",
                                   geodesicLengthGiven(engine)))
        \/ \E hasGeom \in BOOLEAN, engine \in EngineResults :
              StepTo(Cur, Measured("geodesicPerimeter", hasGeom, engine, "undefined",
                                   geodesicPerimeterGiven(hasGeom, engine)))
        \/ \E engine \in EngineResults, planar \in EngineResults :
              StepTo(Cur, Measured("geodesicArea", TRUE, engine, planar,
                                   geodesicAreaGiven(engine, planar)))
        \/ \E hasGeom \in BOOLEAN, engine \in EngineResults :
              StepTo(Cur, Measured("radiusFromPolygon", hasGeom, engine, "undefined",
                                   radiusFromPolygonGiven(hasGeom, engine)))

MeasureSpec == Init /\ [][MeasureNext]_vars

\* C19: a non-finite result of the geometry engine never propagates: the
\* length is 0 whenever the engine's geodesic length is NaN, infinite or
\* absent; the area is the planar area whenever the geodesic area is
\* non-finite or exactly zero; and every value returned by the length,
\* perimeter, area and radius operations is a finite number.
C19_NonFiniteNeverPropagates ==
    /\ lastOp.name = "geodesicLength" /\ lastOp.engine \notin {"0", "5"}
          => lastOp.result = "0"
    /\ lastOp.name = "geodesicArea"
       /\ lastOp.engine \in {"NaN", "Infinity", "undefined", "0"}
          => lastOp.result = OrZero(lastOp.planar)
    /\ lastOp.name \in {"geodesicLength", "geodesicPerimeter", "geodesicArea",
                        "radiusFromPolygon"}
          => lastOp.result \in {"0", "5"}

\* C19, its case: the engine gave NaN for a length and the service returned it
C19_NaNLengthReturned ==
    /\ lastOp.name = "geodesicLength"
    /\ lastOp.engine = "NaN"
    /\ lastOp.result = "NaN"

----------------------------------------------------------------------------
(* clearAll and the Label Index *)

\* C20: Label Index entries are destroyed with their shape: after clearAll
\* the Label Index is empty, and in every reachable state every id in the
\* Label Index is the id of a shape currently in the draw layer.
C20_LabelIndexFollowsShapes ==
    /\ lastOp.name = "clear" => DOMAIN labelIndex = {}
    /\ \A id \in DOMAIN labelIndex :
          \E i \in 1..Len(drawLayer) : graphics[drawLayer[i]].sid = id

\* C20, its case: clearAll has emptied the draw layer and the Label Index
\* still holds an entry
C20_IndexSurvivesClear ==
    /\ lastOp.name = "clear"
    /\ drawLayer = <<>>
    /\ DOMAIN labelIndex # {}

----------------------------------------------------------------------------
(* The selecting sub-mode *)

\* C21: the selecting sub-mode is exited automatically: when the creation
\* that runs in selecting sub-mode reports complete or cancel, with or
\* without a geometry on the event and whether or not anything intersected,
\* selectionMode is null afterwards.
C21_SelectingExitsAutomatically ==
    /\ [][ /\ lastOp'.name = "create"
           /\ lastOp'.state \in {"complete", "cancel"}
           /\ selectionMode # "null"
           => selectionMode' = "null" ]_vars
    /\ [](selectionMode # "null" /\ svmOp.kind = "create" =>
            /\ svmOnCreate(Cur, "complete", 0, NoGeom).selectionMode = "null"
            /\ svmOnCreate(Cur, "cancel", 0, NoGeom).selectionMode = "null")

\* C21, its case: the marquee creation has ended, nothing is in flight, and
\* the service is still in selecting sub-mode
C21_StillSelecting ==
    /\ lastOp.name = "create"
    /\ lastOp.state \in {"complete", "cancel"}
    /\ svmOp.kind = "none"
    /\ selectionMode = "rectangle"

----------------------------------------------------------------------------
(* isEditing *)

----------------------------------------------------------------------------
(* The label layer after a reflow *)

\* C23: after a reflow that ran with settings and with no operation in
\* flight, the label layer holds exactly the labels recorded in the Label
\* Index, each once: no label of the layer is missing from the index, no
\* indexed label is missing from the layer, and no label is there twice.
C23_ReflowLeavesIndexedLabelsOnly ==
    [][ /\ lastOp'.name = "reflow"
        /\ svmOp.kind = "none"
        /\ currentSettings # NoSettings
        => /\ LidsOf(labelLayer') = IndexLids(labelIndex')
           /\ Cardinality(LidsOf(labelLayer')) = Len(labelLayer') ]_vars

\* C23, its case: a reflow has run with settings and nothing in flight, and
\* the label layer holds a label that no entry of the index lists
C23_OrphanSurvivedReflow ==
    /\ lastOp.name = "reflow"
    /\ svmOp.kind = "none"
    /\ currentSettings # NoSettings
    /\ LidsOf(labelLayer) \ IndexLids(labelIndex) # {}

----------------------------------------------------------------------------
(* Click-based selection of a text shape *)

\* C24: a view click goes on to its hit test, and a resolved hit begins a
\* session, only outside the selecting, creating and one-shot-handler
\* states; the session it begins has one clone with one map entry and the
\* svm renders to the selection layer.
C24_ClickSelectsOnlyWhenIdle ==
    [][ /\ lastOp'.name = "click" /\ pendingHits' # pendingHits
           => /\ selectionMode = "null"
              /\ textClickHandler = NoSettings
              /\ svmOp.kind # "create"
        /\ lastOp'.name = "resolveHit" /\ selectionMap' # selectionMap
           => /\ selectionMode = "null"
              /\ textClickHandler = NoSettings
              /\ svmOp.kind # "create"
              /\ Len(selectionLayer') = 1
              /\ DOMAIN selectionMap' = {selectionLayer'[1]}
              /\ svmLayer' = "selection" ]_vars

\* C24, its case: a click was taken for a hit test while a creation is in
\* progress
C24_ClickTakenWhileCreating ==
    /\ lastOp.name = "click"
    /\ pendingHits # <<>>
    /\ svmOp.kind = "create"

----------------------------------------------------------------------------
(* The click handler across its hit test *)

\* C25: whatever is processed between a click and the resolution of its hit
\* test (startSelection, startDraw, another click), the handler begins a
\* session only while selectionMode is null and no one-shot text handler is
\* installed, and after it has begun one the selection layer and the
\* Selection Clone Map hold exactly one clone.
C25_GuardHoldsAtResolution ==
    [][ lastOp'.name = "resolveHit" /\ selectionMap' # selectionMap
        => /\ selectionMode = "null"
           /\ textClickHandler = NoSettings
           /\ Len(selectionLayer') = 1
           /\ DOMAIN selectionMap' = SeqToSet(selectionLayer') ]_vars

\* C25, its case: a hit test has resolved into a session on a text shape
\* although a one-shot text handler, installed after the click, is waiting
C25_SessionWhileHandlerPending ==
    /\ lastOp.name = "resolveHit"
    /\ textClickHandler # NoSettings
    /\ svmOp.kind = "update"
    /\ svmOp.targets = selectionLayer
    /\ Len(selectionLayer) = 1
    /\ graphics[selectionLayer[1]].tool = "text"

----------------------------------------------------------------------------
(* startDraw and the session in progress *)

\* C26: startDraw, for every tool, removes the one-shot text handler that
\* was pending (for the text tool the handler found afterwards is the new
\* one) and ends the session: afterwards the Selection Clone Map is empty,
\* the svm renders to the draw layer, no source has another geometry, and
\* no clone is left in the selection layer, the draw layer or the text layer.
C26_StartDrawEndsSession ==
    [][ lastOp'.name = "startDraw"
        => /\ textClickHandler' =
                 (IF currentSettings'.tool = "text" THEN currentSettings' ELSE NoSettings)
           /\ selectionMap' = <<>>
           /\ svmLayer' = "draw"
           /\ \A c \in DOMAIN selectionMap :
                 selectionMap[c] \in DOMAIN graphics' =>
                    graphics'[selectionMap[c]].geom = graphics[selectionMap[c]].geom
           /\ selectionLayer' = <<>>
           /\ DOMAIN selectionMap \cap SeqToSet(drawLayer' \o textLayer') = {} ]_vars

\* C26, its case: startDraw has ended a session and the clones are still in
\* the selection layer
C26_ClonesLeftDisplayed ==
    /\ lastOp.name = "startDraw"
    /\ lastOp.viaSel
    /\ selectionMap = <<>>
    /\ selectionLayer # <<>>

----------------------------------------------------------------------------
(* The selection layer and the Selection Clone Map *)

\* C27: in every reachable state the graphics of the selection layer are
\* exactly the keys of the Selection Clone Map.
C27_SelectionLayerIsMapKeys ==
    SeqToSet(selectionLayer) = DOMAIN selectionMap

\* C27, its case: after startDraw ended a session a graphic of the selection
\* layer has no map entry
C27_CloneWithoutEntry ==
    /\ lastOp.name = "startDraw"
    /\ svmLayer = "draw"
    /\ \E g \in SeqToSet(selectionLayer) : g \notin DOMAIN selectionMap

----------------------------------------------------------------------------
(* The marquee rectangle *)

\* C28: when a creation completes in selecting sub-mode, the rectangle the
\* svm has drawn is afterwards in none of the draw, text and selection
\* layers, whichever layer the svm was rendering to, and no Label Index
\* entry carries its id.
C28_MarqueeDiscarded ==
    [][ /\ lastOp'.name = "create"
        /\ lastOp'.state = "complete"
        /\ selectionMode # "null"
        => LET rect == NewGraphic(Cur)
           IN  /\ rect \notin SeqToSet(drawLayer' \o textLayer' \o selectionLayer')
               /\ rect \in DOMAIN graphics' =>
                     graphics'[rect].sid \notin DOMAIN labelIndex' ]_vars

\* C28, its case: a marquee has completed while the svm was rendering to
\* the selection layer, and the rectangle is a graphic of that layer
C28_MarqueeLeftInSelectionLayer ==
    /\ lastOp.name = "create"
    /\ lastOp.state = "complete"
    /\ lastOp.viaSel
    /\ currentSettings # NoSettings
    /\ \E g \in SeqToSet(selectionLayer) :
          /\ g \notin DOMAIN selectionMap
          /\ graphics[g].geom \in MarqueeSamples

----------------------------------------------------------------------------
(* The debounce of the reflow *)

----------------------------------------------------------------------------
(* Liveness of the reflow.  The step bound of the model must not keep an   *)
(* armed timeout from firing: at the bound the timeout still fires, and    *)
(* the step is not counted.                                                *)

\* the timeout fires in a state at the step bound
ReflowTimerFiresLate ==
    /\ steps = MaxSteps
    /\ \E id \in reflowTimer :
        LET s == reflowAllLabels([Cur EXCEPT !.reflowTimer = @ \ {id}])
        IN  /\ steps' = steps
            /\ graphics' = [g \in Live(s) |-> s.graphics[g]]
            /\ drawLayer' = s.drawLayer
            /\ labelLayer' = s.labelLayer
            /\ textLayer' = s.textLayer
            /\ selectionLayer' = s.selectionLayer
            /\ hasSelectionLayer' = s.hasSelectionLayer
            /\ svmLayer' = s.svmLayer
            /\ svmOp' = s.svmOp
            /\ textClickHandler' = s.textClickHandler
            /\ textClickHandles' = s.textClickHandles
            /\ tempLabels' = s.tempLabels
            /\ selectionMode' = s.selectionMode
            /\ isEditing' = s.isEditing
            /\ reflowTimer' = s.reflowTimer
            /\ selectionMap' = s.selectionMap
            /\ labelIndex' = s.labelIndex
            /\ currentSettings' = s.currentSettings
            /\ allGraphics' = s.allGraphics
            /\ pendingHits' = s.pendingHits
            /\ published' = s.published
            /\ labelOps' = s.labelOps
            /\ lastOp' = Last("reflow", "")

\* settings changes, view triggers and creations, with the timeout firing
\* at any point between them
LiveNext ==
    \/ UpdateSettings
    \/ StartDraw
    \/ CreateActive
    \/ CreateComplete
    \/ CreateCancel
    \/ ReflowTrigger
    \/ ReflowTimerFires
    \/ ReflowTimerFiresLate

\* the browser runs a timeout that is armed: weak fairness of the firing,
\* WF_vars(ReflowTimerFires \/ ReflowTimerFiresLate), written out with the
\* enabling condition of the firing, which is that a timeout is armed
LiveSpec ==
    Init /\ [][LiveNext]_vars
         /\ ([]<>(reflowTimer = {}) \/ []<><<lastOp'.name = "reflow">>_vars)

----------------------------------------------------------------------------
(* The label index after a reflow *)

\* C31: after a reflow that ran with settings, the Label Index has been
\* rebuilt from scratch: it holds exactly one entry for each shape of the
\* draw layer that has a geometry (as many entries as such shapes, keyed by
\* their ids) and no entry for any other id, and every label the index
\* listed before the reflow has left the label layer.
C31_ReflowRebuildsIndex ==
    [][ lastOp'.name = "reflow" /\ currentSettings # NoSettings
        => LET shaped == {g \in SeqToSet(drawLayer') : graphics'[g].geom # NoGeom}
           IN  /\ DOMAIN labelIndex' = {graphics'[g].sid : g \in shaped}
               /\ Cardinality(DOMAIN labelIndex') = Cardinality(shaped)
               /\ \A g \in shaped : graphics'[g].sid # 0
               /\ IndexLids(labelIndex) \cap LidsOf(labelLayer') = {} ]_vars

\* C31, its case: a reflow has run with settings over a draw layer in which
\* two shapes carry one id, and the index has fewer entries than shapes
C31_TwoShapesOneEntry ==
    /\ lastOp.name = "reflow"
    /\ currentSettings # NoSettings
    /\ \E a, b \in SeqToSet(drawLayer) :
          a # b /\ graphics[a].sid # 0 /\ graphics[a].sid = graphics[b].sid
    /\ Cardinality(DOMAIN labelIndex) < Len(drawLayer)

----------------------------------------------------------------------------
(* Persisting against reflowing *)

\* C32: for the same shape, geometry and settings, the entry that the
\* complete phase of a creation or of a direct-edit update writes into the
\* Label Index has the contents of the entry a reflow of the resulting
\* state writes for that shape, and it holds at most one title label.
C32_PersistAgreesWithReflow ==
    [][ PersistStep /\ currentSettings # NoSettings
        => LET after == reflowAllLabels(
                            [Cur EXCEPT !.graphics = graphics',
                                        !.drawLayer = drawLayer',
                                        !.labelLayer = labelLayer',
                                        !.tempLabels = tempLabels',
                                        !.labelIndex = labelIndex',
                                        !.avoid = UsedLidsOf(labelLayer', tempLabels',
                                                             labelIndex')])
           IN  \A g \in SeqToSet(drawLayer') :
                  graphics'[g].sid \in Replaced =>
                     LET id == graphics'[g].sid
                         entry == labelIndex'[id]
                     IN  /\ id \in DOMAIN after.labelIndex
                         /\ ContentsOf(entry) = ContentsOf(after.labelIndex[id])
                         /\ Cardinality({i \in 1..Len(entry) :
                                            entry[i].text.k = "title"}) <= 1 ]_vars

\* C32, its case: a creation or a direct edit of a polygon was completed
\* with titles enabled, and the shape's entry lists two title labels
C32_TwoTitles ==
    /\ lastOp.name \in {"create", "update"} /\ lastOp.state = "complete"
    /\ currentSettings.showTitle
    /\ \E g \in SeqToSet(drawLayer) :
          /\ graphics[g].geom.type = "polygon"
          /\ graphics[g].sid \in DOMAIN labelIndex
          /\ Cardinality({i \in 1..Len(labelIndex[graphics[g].sid]) :
                             labelIndex[graphics[g].sid][i].text.k = "title"}) = 2

----------------------------------------------------------------------------
(* The complete phase of a normal creation *)

\* C33: when a creation outside selection mode reports complete with a
\* geometry (settings present), the finished shape carries the tool of the
\* current settings and an identifier, every label indexed under that
\* identifier before has left the label layer, and the entry of that
\* identifier lists exactly the labels generated by the step, in order: the
\* labels of makeLabelsForGeometry (segment labels, center block), then the
\* standalone title if titles are enabled; each was added by the step and is
\* in the label layer.
C33_CompletePersistsShape ==
    [][ /\ lastOp'.name = "create" /\ lastOp'.state = "complete"
        /\ selectionMode = "null"
        /\ currentSettings # NoSettings
        => LET g == NewGraphic(Cur)
           IN  /\ g \in DOMAIN graphics'
               /\ graphics'[g].tool = currentSettings.tool
               /\ graphics'[g].sid # 0
               /\ \A o \in OldLids(graphics'[g].sid) : o \notin LidsOf(labelLayer')
               /\ graphics'[g].sid \in DOMAIN labelIndex'
               /\ LET entry == labelIndex'[graphics'[g].sid]
                  IN  /\ ContentsOf(entry) =
                            makeLabelsForGeometry(graphics'[g].geom, currentSettings)
                            \o (IF currentSettings.showTitle
                                THEN <<titleLabelContent(graphics'[g].geom,
                                                         currentSettings)>>
                                ELSE <<>>)
                      /\ \A n \in LidsOf(entry) :
                            OpsAt("add", n) # {} /\ n \in LidsOf(labelLayer')
                      /\ Cardinality(LidsOf(entry)) = Len(entry) ]_vars

\* C33, its case: a normal creation has completed with titles enabled; the
\* finished shape is in the draw layer with the tool of the settings, and
\* its entry ends with the standalone title
C33_ShapePersisted ==
    /\ lastOp.name = "create" /\ lastOp.state = "complete"
    /\ currentSettings.showTitle
    /\ \E g \in SeqToSet(drawLayer) :
          /\ graphics[g].tool = currentSettings.tool
          /\ graphics[g].sid \in DOMAIN labelIndex
          /\ labelIndex[graphics[g].sid] # <<>>
          /\ ContentOf(labelIndex[graphics[g].sid][Len(labelIndex[graphics[g].sid])])
                = titleLabelContent(graphics[g].geom, currentSettings)
          /\ LidsOf(labelIndex[graphics[g].sid]) \subseteq LidsOf(labelLayer)

----------------------------------------------------------------------------
(* The complete phase of an update through the working collection *)

\* C34: when an update reports complete while svm.layer is the working
\* collection, no per-shape label regeneration takes place (the Label Index
\* is as before and the step adds no label to the label layer), and the
\* measurement rows of the edited graphics are published before the
\* emissions of the teardown (the empty measurement list of endSelectionEdit).
C34_CommitSkipsRegeneration ==
    [][ CommitStep =>
          /\ labelIndex' = labelIndex
          /\ \A k \in 1..Len(labelOps') : labelOps'[k].op # "add"
          /\ \E i, j \in 1..Len(published') :
                /\ i < j
                /\ published'[i] =
                      Emission("measurements", <<>>,
                               buildMeasurementsForGraphics(
                                   [s |-> Cur, out |-> <<>>], svmOp.targets).out)
                /\ published'[j] = Emission("measurements", <<>>, <<>>) ]_vars

\* C34, its case: the complete phase of an update through the working
\* collection was delivered without settings and published nothing, while
\* the session stayed open
C34_NothingPublished ==
    /\ lastOp.name = "update" /\ lastOp.state = "complete" /\ lastOp.viaSel
    /\ currentSettings = NoSettings
    /\ published = <<>>
    /\ svmLayer = "selection"

----------------------------------------------------------------------------
(* selectGraphics as the table calls it.  The table keeps the ids last     *)
(* published on selectedGraphicIds$ and, on a ctrl-click, sends them back  *)
(* together with the id of the clicked row; clearAll and an import do not  *)
(* publish on that stream, so the list can hold the id of a shape that is  *)
(* gone.  In SelectSpec the list is an input: the ids of up to two listed  *)
(* rows, with or without such a stale id in front.                         *)

SelectNext ==
    \/ ImportFile
    \/ StartDraw
    \/ Clear
    \/ \E rows \in {<<>>} \cup RowChoices, withStale \in BOOLEAN :
          LET s1 == getGraphicIdEach(Cur, rows)
              unnamed == {g \in SeqToSet(s1.drawLayer \o s1.textLayer) :
                             s1.graphics[g].sid = 0}
              \* an id handed out earlier that no graphic carries and that
              \* the scan of selectGraphics will not hand out
              staleId == SmallestFree(UsedSids(s1), Cardinality(unnamed) + 1)
                             [Cardinality(unnamed) + 1]
              ids == (IF withStale THEN <<staleId>> ELSE <<>>) \o IdsOf(s1, rows)
          IN  StepTo(selectGraphics(s1, ids),
                     [name |-> "selectGraphics", state |-> "",
                      viaSel |-> hasSelectionLayer /\ svmLayer = "selection",
                      ids |-> ids])

SelectSpec == Init /\ [][SelectNext]_vars

\* C35: selectGraphics(ids) ends the session it finds (none of its clones is
\* kept), resolves each id to the shape of the draw or text layer that
\* carries it, and begins a session over exactly the resolved shapes: the
\* selection map has one clone per resolved shape and nothing else, its
\* clones are the contents of the selection layer, svm.layer is the
\* selection layer, and the ids published last on selectedGraphicIds are the
\* ids of the resolved shapes; when no id resolves, no session is begun.
C35_SelectsResolvedSet ==
    [][ lastOp'.name = "selectGraphics" /\ "ids" \in DOMAIN lastOp'
        => LET ids == SeqToSet(lastOp'.ids)
               resolved == {g \in SeqToSet(drawLayer' \o textLayer') :
                               graphics'[g].sid # 0 /\ graphics'[g].sid \in ids}
               selected == {i \in 1..Len(published') :
                               published'[i].stream = "selectedGraphicIds"}
           IN  /\ DOMAIN selectionMap \cap DOMAIN selectionMap' = {}
               /\ Sources(selectionMap') = resolved
               /\ Cardinality(DOMAIN selectionMap') = Cardinality(resolved)
               /\ DOMAIN selectionMap' = SeqToSet(selectionLayer')
               /\ resolved # {} =>
                     /\ svmLayer' = "selection"
                     /\ svmOp'.kind = "update"
                     /\ SeqToSet(svmOp'.targets) = DOMAIN selectionMap'
                     /\ selected # {}
                     /\ \A i \in selected :
                           (\A j \in selected : j <= i) =>
                               SeqToSet(published'[i].ids) =
                                   {graphics'[g].sid : g \in resolved}
               /\ resolved = {} =>
                     svmLayer' = "draw" /\ svmOp'.kind = "none" ]_vars

\* C35, its case: selectGraphics was given a stale id and the id of a listed
\* shape; a session over the one resolved shape was begun
C35_StaleIdGiven ==
    /\ lastOp.name = "selectGraphics" /\ "ids" \in DOMAIN lastOp
    /\ Len(lastOp.ids) = 2
    /\ Cardinality(DOMAIN selectionMap) = 1
    /\ svmLayer = "selection"
    /\ \E i \in 1..Len(lastOp.ids) :
          \A g \in SeqToSet(drawLayer \o textLayer) : graphics[g].sid # lastOp.ids[i]

----------------------------------------------------------------------------
(* Handlers that raise.  A complete-phase handler can be left by an        *)
(* exception at a call into the geometry engine or the graphics API; the   *)
(* statements before the call have run, those after it have not, and the   *)
(* finally blocks of the handler run.  The svm has finished its operation  *)
(* (and added a created graphic to its layer) before it reports complete.  *)

ErrNext ==
    \/ ImportFile
    \/ StartDraw
    \/ StartSelection
    \/ SvmGraphicClick
    \/ CreateActive
    \/ CreateComplete
    \/ UpdateActive
    \* 'create' complete in selection mode (188-246): geometryEngine.intersects
    \* raises at the first graphic tested, or the cloning loop raises at the
    \* k-th selected graphic; then the finally block
    \/ /\ svmOp.kind = "create" /\ selectionMode # "null"
       /\ currentSettings # NoSettings
       /\ \E geom \in CreateGeoms, k \in 0..MaxShapes :
            LET g == NewGraphic(Cur)
                s0 == Alloc([Cur EXCEPT !.svmOp = NoOp], g, geom, "")
                s1 == IF svmLayer = "draw"
                      THEN s0
                      ELSE [s0 EXCEPT !.selectionLayer = Append(@, g)]
                hit(x) == s1.graphics[x].geom # NoGeom
                          /\ Intersects(s1.graphics[x].geom, geom)
                tested(x) == s1.graphics[x].geom # NoGeom
                selected == SelectSeq(s1.drawLayer, hit) \o SelectSeq(s1.textLayer, hit)
                tried == IF k = 0 THEN s1
                         ELSE cloneIntoSelection(prepareSelectionLayer(s1, TRUE),
                                                 SubSeq(selected, 1, k - 1))
            IN  /\ IF k = 0
                   THEN SelectSeq(s1.drawLayer \o s1.textLayer, tested) # <<>>
                   ELSE k <= Len(selected)
                /\ Commit(clearTempLabels([tried EXCEPT !.selectionMode = "null"]),
                          Last("create", "raise"))
    \* 'update' complete through the selection layer (334-352): the copy loop
    \* raises at the k-th edited graphic; then endSelectionEdit
    \/ /\ svmOp.kind = "update" /\ hasSelectionLayer /\ svmLayer = "selection"
       /\ currentSettings # NoSettings
       /\ \E k \in 1..Len(svmOp.targets) :
            LET s1 == [Cur EXCEPT !.svmOp = NoOp, !.isEditing = FALSE]
                s2 == publishMeasurementsFromGraphics(s1, svmOp.targets)
                s3 == copyGeometryToSources(s2, SubSeq(svmOp.targets, 1, k - 1))
            IN  Commit(endSelectionEdit(s3, TRUE), Last("update", "raise"))
    \* 'create' complete outside selection mode (267-295): makeLabelsForGeometry
    \* raises, or placeTitleLabel raises after the labels were added
    \/ /\ svmOp.kind = "create" /\ selectionMode = "null"
       /\ currentSettings # NoSettings
       /\ \E geom \in CreateGeoms, inTitle \in BOOLEAN :
            LET g == NewGraphic(Cur)
                s0 == Alloc([Cur EXCEPT !.svmOp = NoOp], g, geom, "")
                s1 == IF svmLayer = "draw"
                      THEN [s0 EXCEPT !.drawLayer = Append(@, g)]
                      ELSE [s0 EXCEPT !.selectionLayer = Append(@, g)]
                s2 == clearTempLabels([s1 EXCEPT !.isEditing = FALSE])
                s3 == [s2 EXCEPT !.graphics[g].tool = currentSettings.tool]
                s4 == removePersistedLabelsFor(getGraphicId(s3, g), g)
                labels == NewLabels(s4, makeLabelsForGeometry(geom, currentSettings))
            IN  /\ inTitle => currentSettings.showTitle
                /\ Commit(IF inTitle
                          THEN labelLayerAddAll(Reserve(s4, labels), labels)
                          ELSE s4,
                          Last("create", "raise"))
    \* 'update' complete on the direct-edit path (355-380): makeLabelsForGeometry
    \* raises for the first edited graphic
    \/ /\ svmOp.kind = "update" /\ ~(hasSelectionLayer /\ svmLayer = "selection")
       /\ currentSettings # NoSettings
       /\ svmOp.targets # <<>>
       /\ graphics[Head(svmOp.targets)].geom # NoGeom
       /\ LET s1 == clearTempLabels([Cur EXCEPT !.svmOp = NoOp, !.isEditing = FALSE])
              g == Head(svmOp.targets)
          IN  Commit(removePersistedLabelsFor(getGraphicId(s1, g), g),
                     Last("update", "raise"))

ErrSpec == Init /\ [][ErrNext]_vars

\* C36: when a complete-phase handler raises part-way (intersection or
\* cloning in the marquee path, geometry copy in the commit path, label
\* generation in the creation and direct-edit paths), the cleanup has still
\* happened when the handler is left: the selecting sub-mode is cleared, no
\* transient label is left, the selection map is empty, and every label the
\* Label Index lists is in the label layer.
C36_CleanupOnErrorPaths ==
    [][ lastOp'.state = "raise"
        => /\ selectionMode' = "null"
           /\ tempLabels' = <<>>
           /\ selectionMap' = <<>>
           /\ IndexLids(labelIndex') \subseteq LidsOf(labelLayer') ]_vars

\* C36, its case: the marquee handler raised while cloning; the selecting
\* sub-mode is cleared, no update was started, and the selection map still
\* holds the clones made before the exception
C36_PartialClonesKept ==
    /\ lastOp.name = "create" /\ lastOp.state = "raise"
    /\ selectionMode = "null"
    /\ svmOp.kind = "none"
    /\ svmLayer = "draw"
    /\ selectionMap # <<>>
    /\ DOMAIN selectionMap \subseteq SeqToSet(selectionLayer)

----------------------------------------------------------------------------
(* Text placement *)

\* C37: the click handler of text placement is single-use.  At most one such
\* handler is registered on the view at any time, and it is the one whose
\* handle the service holds; a view click that finds the handler installed
\* adds exactly one text shape to the text layer and removes the handler; a
\* view click that finds none leaves the text layer as it is.
C37_TextHandlerSingleUse ==
    /\ [](/\ textClickHandles <= 1
          /\ textClickHandles = 1 <=> textClickHandler # NoSettings)
    /\ [][ lastOp'.name = "click" =>
             IF textClickHandler # NoSettings
             THEN /\ Len(textLayer') = Len(textLayer) + 1
                  /\ SubSeq(textLayer', 1, Len(textLayer)) = textLayer
                  /\ graphics'[textLayer'[Len(textLayer')]].tool = "text"
                  /\ textClickHandler' = NoSettings
                  /\ textClickHandles' = 0
             ELSE textLayer' = textLayer ]_vars

\* C37, its case: a click has placed a text; the handler is gone and the
\* table lists the new shape
C37_TextPlaced ==
    /\ lastOp.name = "click"
    /\ pendingHits = <<>>
    /\ textLayer # <<>>
    /\ graphics[textLayer[Len(textLayer)]].tool = "text"
    /\ textClickHandler = NoSettings /\ textClickHandles = 0
    /\ allGraphics = drawLayer \o textLayer

----------------------------------------------------------------------------
(* Imports without content *)

\* C38: an import that yields no valid content leaves the existing work
\* alone: when the file's payload is not an object, or carries a version
\* other than 1 and 2, onFileSelected leaves the draw, label and text layers
\* as they were.
C38_EmptyImportKeepsWork ==
    [][ /\ lastOp'.name = "import"
        /\ \/ ~lastOp'.payload.isObject
           \/ lastOp'.payload.version \notin {0, 1, 2}
        => /\ drawLayer' = drawLayer
           /\ labelLayer' = labelLayer
           /\ textLayer' = textLayer ]_vars

\* C38, its case: a file that holds no object was imported after an earlier
\* import had filled the layers; clearAll has run and the layers are empty
C38_WorkWiped ==
    /\ lastOp.name = "import"
    /\ ~lastOp.payload.isObject
    /\ steps >= 2
    /\ \E i \in 1..Len(labelOps) : labelOps[i].op = "removeAll"
    /\ drawLayer = <<>> /\ labelLayer = <<>> /\ textLayer = <<>>

----------------------------------------------------------------------------
(* The radius line of the center block *)

\* C39: a circle-radius line "R = ..." is generated only for a polygon whose
\* tool is circle: the Label Index entry of a shape of the draw layer holds
\* an R line only if the shape's tool tag is circle (persisted labels, also
\* after a reflow), and the transient labels of a creation hold one only if
\* the tool being drawn is circle.
C39_RadiusLineOnlyForCircle ==
    /\ \A g \in SeqToSet(drawLayer) :
          (/\ graphics[g].sid \in DOMAIN labelIndex
           /\ \E i \in 1..Len(labelIndex[graphics[g].sid]) :
                 labelIndex[graphics[g].sid][i].text.k = "R")
          => graphics[g].tool = "circle"
    /\ (/\ svmOp.kind = "create"
        /\ \E i \in 1..Len(tempLabels) : tempLabels[i].text.k = "R")
       => svmOp.tool = "circle"

\* C39, its case: a polygon drawn with the polygon tool was completed with
\* showCircleRadius on, and its entry holds an R line
C39_RadiusLineOnPolygon ==
    /\ lastOp.name = "create" /\ lastOp.state = "complete"
    /\ currentSettings.showCircleRadius
    /\ \E g \in SeqToSet(drawLayer) :
          /\ graphics[g].tool = "polygon"
          /\ graphics[g].geom.type = "polygon"
          /\ graphics[g].sid \in DOMAIN labelIndex
          /\ \E i \in 1..Len(labelIndex[graphics[g].sid]) :
                labelIndex[graphics[g].sid][i].text.k = "R"

----------------------------------------------------------------------------
(* The center block.  BlockSpec starts from one restored line or polygon   *)
(* and stored settings in which the title, the totals, the radius line,    *)
(* the title text and the font size vary (segment labels off, labels       *)
(* during draw on), and lets the user edit the shape in place: the active  *)
(* phase shows the labels of makeLabelsForGeometry as transient labels,    *)
(* the complete phase persists them.                                       *)

\* stored settings; the font sizes 9, 12, 13 give line heights 11, 14, 16
BlockSettings ==
    {[MkSettings("polygon", content, TRUE, FALSE, tot, rad, tit) EXCEPT !.fontSize = f] :
        content \in {"Label", ""}, tot \in BOOLEAN, rad \in BOOLEAN,
        tit \in BOOLEAN, f \in {9, 12, 13}}

BlockInit ==
    /\ \E geom \in {PolylineGeom(1), PolygonGeom(1)} :
          graphics = <<[geom |-> geom, tool |-> geom.type, sid |-> 0]>>
    /\ drawLayer = <<1>>
    /\ labelLayer = <<>>
    /\ textLayer = <<>>
    /\ selectionLayer = <<>>
    /\ hasSelectionLayer = FALSE
    /\ svmLayer = "draw"
    /\ svmOp = NoOp
    /\ textClickHandler = NoSettings
    /\ textClickHandles = 0
    /\ tempLabels = <<>>
    /\ selectionMode = "null"
    /\ isEditing = FALSE
    /\ reflowTimer = {}
    /\ selectionMap = <<>>
    /\ labelIndex = <<>>
    /\ currentSettings \in BlockSettings
    /\ allGraphics = <<>>
    /\ pendingHits = <<>>
    /\ published = <<>>
    /\ labelOps = <<>>
    /\ lastOp = [name |-> "init", state |-> "", viaSel |-> FALSE]
    /\ steps = 0

BlockNext ==
    \/ SvmGraphicClick
    \/ UpdateActive
    \/ UpdateComplete

BlockSpec == BlockInit /\ [][BlockNext]_vars

\* C40: the center block lists its enabled lines in the order title, totals
\* (L for a line; A then P for a polygon), radius; with n lines and
\* lineHeight = round(fontSize * 1.2), line i (from 0) is placed by
\* offsetPoint(center, 0, (i - (n-1)) * lineHeight): the offsets increase
\* strictly with i, the first line is the highest and the last line has
\* offset 0.  Stated for the transient labels the active phase of an edit
\* shows and for the labels its complete phase persists (the entry's labels
\* before the standalone title).
C40_CenterBlockStacked ==
    (lastOp.name = "update" /\ lastOp.state \in {"active", "complete"}) =>
        LET settings == currentSettings
            geom == graphics[1].geom
            block == IF lastOp.state = "active" THEN tempLabels
                     ELSE SubSeq(labelIndex[graphics[1].sid], 1,
                                 Len(labelIndex[graphics[1].sid])
                                    - (IF settings.showTitle THEN 1 ELSE 0))
            n == Len(block)
            lineHeight == CASE settings.fontSize = 9 -> 11
                            [] settings.fontSize = 12 -> 14
                            [] settings.fontSize = 13 -> 16
            order == (IF settings.showTitle THEN <<"title">> ELSE <<>>)
                     \o (IF ~settings.showTotals THEN <<>>
                         ELSE IF geom.type = "polyline" THEN <<"L">>
                         ELSE <<"A", "P">>)
                     \o (IF geom.type = "polygon" /\ settings.showCircleRadius
                         THEN <<"R">> ELSE <<>>)
        IN  /\ [i \in 1..n |-> block[i].text.k] = order
            /\ \A i \in 1..n :
                  /\ block[i].off = VerticalOffset(((i - 1) - (n - 1)) * lineHeight)
                  /\ block[i].anchor = centroidLabelPoint(geom)
                  /\ block[i].angle = 0
                  /\ block[i].text.k = "title" =>
                        block[i].text.str = (IF settings.content = "" THEN "Feature"
                                             ELSE settings.content)
            /\ \A i, j \in 1..n : i < j => block[i].off.dy < block[j].off.dy
            /\ n > 0 => block[1].off.dy = -((n - 1) * lineHeight) /\ block[n].off.dy = 0

\* C40, its case: a polygon's labels were persisted with the title, the
\* totals and the radius line on; the block has four lines, the title at the
\* top, three line heights above the anchor
C40_FourLineBlock ==
    /\ lastOp.name = "update" /\ lastOp.state = "complete"
    /\ currentSettings.fontSize = 13
    /\ graphics[1].sid \in DOMAIN labelIndex
    /\ Len(labelIndex[graphics[1].sid]) = 5
    /\ labelIndex[graphics[1].sid][1].text.k = "title"
    /\ labelIndex[graphics[1].sid][1].off.dy = -48
    /\ labelIndex[graphics[1].sid][4].text.k = "R"
    /\ labelIndex[graphics[1].sid][4].off.dy = 0

====
